---------------------------- MODULE Spec2Model ----------------------------
(***************************************************************************)
(* Propagation and partial-evaluation engine of the BGP synthesizer        *)
(* (synet/synthesis/new_propagation.py, class EBGPPropagation) over the    *)
(* topology model (tekton/graph.py, class NetworkGraph).                   *)
(*                                                                         *)
(* Several specifications share the variables:                             *)
(*   SpecZones   extract_ibgp_zones over every small topology              *)
(*               (SpecZonesFair: the same, every enabled step is taken);   *)
(*   SpecExpand  expand_as_path over every layout of BGP sessions          *)
(*               (SpecExpandGraph: followed by expand_ebgp_graph);         *)
(*   SpecDags    compute_dags: per-prefix graphs, merge_dags,              *)
(*               partial_eval_propagated_info, the returned violations     *)
(*               (SpecFacts: the same call on a topology of three ASes);   *)
(*   SpecReqs    extract_reqs over short lists of requirements;            *)
(*   SpecGraph   the mutating calls of NetworkGraph on a graph that        *)
(*               starts empty;                                             *)
(*   SpecRmap    the route-map conversions of netcomplete_ebgp_eval.py,    *)
(*               one after the other in either order, also after calls     *)
(*               on the lists of the router.                               *)
(***************************************************************************)
EXTENDS Integers, Sequences, FiniteSets, TLC

VARIABLES
    pc,           \* position of the running call
    vtype,        \* NetworkGraph._node[n][VERTEX_TYPE], by node of the graph
    asnum,        \* NetworkGraph._node[n]['bgp']['asnum'], by router
    links,        \* NetworkGraph edges (directed), pairs <<u, v>>
    nbrs,         \* NetworkGraph._node[n]['bgp']['neighbors'] keys, by router
    advertise,    \* NetworkGraph.get_bgp_advertise(n): list of announcements
    asmap,        \* extract_ibgp_zones: asnum -> routers announcing it
    zones,        \* extract_ibgp_zones: asnum -> finished zone graph
    zcur,         \* extract_ibgp_zones: asnum of the zone being grown
    ibgp_nodes,   \* extract_ibgp_zones: nodes visited by the current pass
    ibgp_graph,   \* extract_ibgp_zones: the zone graph being grown
    prev_size,    \* extract_ibgp_zones: (nodes, edges) before the pass
    passes,       \* extract_ibgp_zones: passes run on the current zone
    exp_path,     \* expand_as_path: the AS sequence (argument path)
    exp_origins,  \* expand_as_path: the origin routers (argument origins)
    new_paths,    \* expand_as_path: the frontier of partial router paths
    exp_index,    \* expand_as_path: position of the outer loop (1-based)
    exp_result,   \* expand_as_path: the returned set of router paths
    net_todo,     \* compute_dags: prefixes of net_reqs not yet processed
    net_done,     \* compute_dags: prefixes processed, in order
    prop_out,     \* what compute_propagation returns, by prefix
    order_checks, \* what check_order returns, by prefix
    ebgp_graphs,  \* self.ebgp_graphs: prefix -> AS-level graph
    ibgp_graphs,  \* self.ibgp_graphs: prefix -> router-level graph
    unmatching_order,  \* compute_dags: the local of that name
    ebgp_propagation,  \* self.ebgp_propagation (merged)
    ibgp_propagation,  \* self.ibgp_propagation (merged)
    cache,        \* partial_eval_propagated_info: path -> PropagatedInfo
    info,         \* attrs['order_info' / 'paths_info' / 'block_info']
    prev,         \* PropagatedInfo.prev (and attrs['origins']), by fact
    aspath_enum,  \* the enumeration registered by ctx.create_enum_type
    returned,     \* the value compute_dags returned
    err,          \* the exception that ended the call, if any
    reqs,         \* self.reqs: the requirements
    xreqs,        \* extract_reqs: the argument reqs
    as_paths,     \* extract_reqs: the returned AS-level list
    router_paths, \* extract_reqs: the returned router-level list
    held,         \* the facts derived from router_paths, by holding router
    etype,        \* NetworkGraph[u][v][EDGE_TYPE], by edge <<u, v>>
    gcall,        \* the last mutating call made on the graph and its outcome
    rmap_dir,     \* route maps: which conversion is applied first
    rmap_maps,    \* route maps: prefix_map and inv_prefix_map
    rmap_in,      \* route maps: the input (serialized lines, or a RouteMap)
    rmap_mid,     \* route maps: the result of the first conversion
    rmap_out,     \* route maps: the result of the second conversion
    rmap_lists    \* route maps: the lists registered on the router, and
                  \* the counter the graph names lists from

topoVars == <<vtype, asnum, links, nbrs, advertise>>
zoneVars == <<asmap, zones, zcur, ibgp_nodes, ibgp_graph, prev_size, passes>>
expVars == <<exp_path, exp_origins, new_paths, exp_index, exp_result>>
dagVars == <<net_todo, net_done, prop_out, order_checks, ebgp_graphs,
             ibgp_graphs, unmatching_order, ebgp_propagation,
             ibgp_propagation, cache, info, prev,
             aspath_enum, returned, err, reqs>>
reqVars == <<xreqs, as_paths, router_paths, held>>
graphVars == <<etype, gcall>>
rmapVars == <<rmap_dir, rmap_maps, rmap_in, rmap_mid, rmap_out, rmap_lists>>
auxVars == <<reqVars, graphVars, rmapVars>>
vars == <<pc, topoVars, zoneVars, expVars, dagVars, auxVars>>

---------------------------------------------------------------------------
(* Values *)

\* Python's None where the model needs an integer (an unset AS number).
NONE == 0

\* VERTEXTYPE
ROUTER == "ROUTER"
NETWORK == "NETWORK"
PEER == "PEER"

\* AS numbers used by the inputs.
ASNums == {10, 20}

\* Bound of SpecZones: directed links of a generated topology.
MaxLinks == 3

\* Bound of SpecExpand: length of the AS sequence handed to expand_as_path.
MaxSeqLen == 3

\* Bounds of SpecDags: requirements of a run, facts (placed paths) that
\* compute_propagation returns in a run, ranks of an order list, routers
\* (or ASes) of a path.
MaxReqs == 2
MaxFacts == 2
MaxRank == 2
MaxPathLen == 3

Last(s) == s[Len(s)]

Range(s) == {s[i] : i \in 1..Len(s)}

NoRepeat(p) == \A i, j \in 1..Len(p) : p[i] = p[j] => i = j

\* Sequences over S of length 1..n.
SeqsUpTo(S, n) == UNION {[1..k -> S] : k \in 1..n}

---------------------------------------------------------------------------
(* NetworkGraph queries (tekton/graph.py) *)

\* A call answers with a truth value, written "True" or "False", or raises:
\* "KeyError" or "AssertionError". A call that returns another value answers
\* with a record: exc is "none" and ret the value, or exc is the exception.
\* The callers in this module that run on topologies whose nodes all have a
\* vertex type, and that ask only routers for their BGP attributes, read
\* the value directly (= "True", .ret).

\* A node that networkx created as the end point of an edge: its attribute
\* dict has no VERTEX_TYPE key.
UNTYPED == "UNTYPED"

Returned(v) == [exc |-> "none", ret |-> v]

\* The call raised e; ret is a value of the type the call returns, read by
\* no one.
Raised(e, v) == [exc |-> e, ret |-> v]

has_node(n) == n \in DOMAIN vtype

\* self._node[node][VERTEX_TYPE] == t  for a node of the graph: KeyError
\* when the node has no VERTEX_TYPE.
TypeTest(n, types) ==
    IF ~has_node(n) THEN "False"
    ELSE IF vtype[n] = UNTYPED THEN "KeyError"
    ELSE IF vtype[n] \in types THEN "True" ELSE "False"

\* Python's "a or b": b is evaluated only when a is False.
OrElse(a, b) == IF a = "False" THEN b ELSE a

\* The outcome of "assert e".
Asserted(e) ==
    CASE e = "True" -> "ok"
      [] e = "False" -> "AssertionError"
      [] OTHER -> e

is_peer(n) == TypeTest(n, {PEER})

is_local_router(n) == TypeTest(n, {ROUTER})

is_network(n) == TypeTest(n, {NETWORK})

is_router(n) == OrElse(is_peer(n), is_local_router(n))

\* The generator raises when it reaches a node without VERTEX_TYPE.
routers_iter ==
    IF \E n \in DOMAIN vtype : vtype[n] = UNTYPED
    THEN Raised("KeyError", {})
    ELSE Returned({n \in DOMAIN vtype : is_router(n) = "True"})

\* Line 589: assert self.is_router(node). (The 'bgp' dict the call creates
\* for a router that has none holds asnum None, no neighbors and no
\* announcements, which is what the getters answer for a router without
\* entry in asnum, nbrs, advertise.)
get_bgp_attrs(n) == Asserted(is_router(n))

get_bgp_asnum(n) ==
    IF get_bgp_attrs(n) # "ok" THEN Raised(get_bgp_attrs(n), NONE)
    ELSE Returned(IF n \in DOMAIN asnum THEN asnum[n] ELSE NONE)

is_bgp_enabled(n) ==
    IF get_bgp_asnum(n).exc # "none" THEN get_bgp_asnum(n).exc
    ELSE IF get_bgp_asnum(n).ret # NONE THEN "True" ELSE "False"

\* DiGraph.neighbors: the successors of n; for a node the graph lacks
\* networkx raises NetworkXError.
neighbors(n) ==
    IF ~has_node(n) THEN Raised("NetworkXError", {})
    ELSE Returned({l[2] : l \in {k \in links : k[1] = n}})

get_bgp_neighbors(n) ==
    IF get_bgp_attrs(n) # "ok" THEN Raised(get_bgp_attrs(n), {})
    ELSE Returned(IF n \in DOMAIN nbrs THEN nbrs[n] ELSE {})

get_bgp_advertise(n) ==
    IF get_bgp_attrs(n) # "ok" THEN Raised(get_bgp_attrs(n), << >>)
    ELSE Returned(IF n \in DOMAIN advertise THEN advertise[n] ELSE << >>)

---------------------------------------------------------------------------
(* extract_ibgp_zones *)

\* An undirected networkx graph: nodes and edges {u, v}.
EmptyGraph == [nodes |-> {}, edges |-> {}]

GraphSize(g) == <<Cardinality(g.nodes), Cardinality(g.edges)>>

\* Lines 92-97: asnum -> the routers (local or peer) announcing it. The
\* loop ends with the KeyError of routers_iter when the graph holds a node
\* without vertex type.
BuildAsmap ==
    LET used == {get_bgp_asnum(n).ret : n \in {m \in routers_iter.ret : is_bgp_enabled(m) = "True"}}
    IN  IF routers_iter.exc # "none" THEN Raised(routers_iter.exc, << >>)
        ELSE Returned([a \in used |->
                          {n \in routers_iter.ret : get_bgp_asnum(n).ret = a}])

\* Mutation of ZoneAccepts: the same-AS test of line 113 is lost.
ZoneAccepts_AnyAS(a, neighbor) == is_router(neighbor)

\* Lines 110-116: the neighbor joins the zone when it is a router (or peer)
\* that is in the same AS or is not BGP-enabled; the test of line 110
\* raises KeyError for a neighbor without vertex type.
ZoneAccepts(a, neighbor) ==
    IF is_router(neighbor) # "True" THEN is_router(neighbor)
    ELSE IF is_bgp_enabled(neighbor) = "True" /\ get_bgp_asnum(neighbor).ret # a
    THEN "False" ELSE "True"

\* The edges one pass adds (lines 108-116).
PassEdges(a, nodes) ==
    {e \in {<<n, m>> : n \in nodes, m \in DOMAIN vtype} :
        e[2] \in neighbors(e[1]).ret /\ ZoneAccepts(a, e[2]) = "True"}

\* Mutation of ZonePass: the pass keeps only what it added itself.
ZonePass_OnlyAdded(g, a, nodes) ==
    LET es == PassEdges(a, nodes)
    IN  [nodes |-> {e[1] : e \in es} \cup {e[2] : e \in es},
         edges |-> {{e[1], e[2]} : e \in es}]

\* Lines 108-116: one pass of the while loop over ibgp_nodes.
ZonePass(g, a, nodes) ==
    LET es == PassEdges(a, nodes)
    IN  [nodes |-> g.nodes \cup {e[1] : e \in es} \cup {e[2] : e \in es},
         edges |-> g.edges \cup {{e[1], e[2]} : e \in es}]

\* Mutation of VisitEdge: a non-BGP neighbor is not taken (lines 115-116 lost).
VisitEdge_SameASOnly(g, a, node, neighbor) ==
    IF is_router(neighbor) = "True" /\ get_bgp_asnum(neighbor).ret = a
    THEN [nodes |-> g.nodes \cup {node, neighbor},
          edges |-> g.edges \cup {{node, neighbor}}]
    ELSE g

\* Lines 110-116: the body of the inner loop for one (node, neighbor);
\* nx.Graph.add_edge adds both end points and the undirected edge.
VisitEdge(g, a, node, neighbor) ==
    IF ZoneAccepts(a, neighbor) = "True"
    THEN [nodes |-> g.nodes \cup {node, neighbor},
          edges |-> g.edges \cup {{node, neighbor}}]
    ELSE g

\* Lines 108-109: the (node, neighbor) pairs one pass visits.
Visited(nodes) ==
    {l \in links : l[1] \in nodes}

RECURSIVE VisitInOrder(_, _, _)
\* Lines 108-116: one pass, the pairs visited in the order given.
VisitInOrder(g, a, ord) ==
    IF ord = << >> THEN g
    ELSE VisitInOrder(VisitEdge(g, a, Head(ord)[1], Head(ord)[2]), a, Tail(ord))

RECURSIVE ZoneLoop(_, _, _, _)
\* Lines 107-123: passes until the size no longer changes.
ZoneLoop(g, a, nodes, size) ==
    LET g2 == ZonePass(g, a, nodes)
    IN  IF GraphSize(g2) # size
        THEN ZoneLoop(g2, a, g2.nodes, GraphSize(g2))
        ELSE g2

\* Lines 91-125 as one function: asnum -> zone graph, or the KeyError of
\* line 92. (Once line 92 has passed every node has a vertex type, so the
\* tests of the passes raise nothing.)
extract_ibgp_zones ==
    LET am == BuildAsmap.ret
    IN  IF BuildAsmap.exc # "none" THEN Raised(BuildAsmap.exc, << >>)
        ELSE Returned([a \in DOMAIN am |->
                 LET g0 == [nodes |-> am[a], edges |-> {}]
                 IN  ZoneLoop(g0, a, am[a], GraphSize(g0))])

---------------------------------------------------------------------------
(* Inputs of SpecZones: topologies over three nodes *)

\* No exception.
NoErr == [kind |-> "none", where |-> "none", net |-> "none", node |-> "none"]

\* An unbound local (compute_dags assigns unmatching_order in its loop only).
Unbound == [bound |-> FALSE, val |-> {}]

\* self.ebgp_propagation = self.ibgp_propagation = None before merge_dags.
NoMerged == [nodes |-> {}, edges |-> {}, nets |-> << >>]

DagIdle ==
    /\ net_todo = << >> /\ net_done = << >>
    /\ prop_out = << >> /\ order_checks = << >>
    /\ ebgp_graphs = << >> /\ ibgp_graphs = << >>
    /\ unmatching_order = Unbound
    /\ ebgp_propagation = NoMerged /\ ibgp_propagation = NoMerged
    /\ cache = << >> /\ info = << >> /\ prev = << >>
    /\ aspath_enum = {} /\ returned = Unbound /\ err = NoErr
    /\ reqs = << >>

ExpIdle ==
    /\ exp_path = << >> /\ exp_origins = {} /\ new_paths = {}
    /\ exp_index = 0 /\ exp_result = {}

ReqIdle ==
    /\ xreqs = << >> /\ as_paths = << >> /\ router_paths = << >>
    /\ held = << >>

\* No call was made on the graph yet.
NoCall == [op |-> "none", u |-> "none", v |-> "none", typed |-> FALSE, res |-> "none"]

GraphIdle == etype = << >> /\ gcall = NoCall

\* No list is registered on the router, and the counter of the graph
\* (itertools.count(1), graph.py line 74) has given no value yet.
NoLists == [ip |-> << >>, comm |-> << >>, counter |-> 1]

RmapIdle ==
    /\ rmap_dir = "none" /\ rmap_maps = [prefix_map |-> << >>, inv_prefix_map |-> << >>]
    /\ rmap_in = << >> /\ rmap_mid = << >> /\ rmap_out = << >>
    /\ rmap_lists = NoLists

AuxIdle == ReqIdle /\ GraphIdle /\ RmapIdle

ZNodes == {"r1", "r2", "r3"}

ZPairs == {p \in ZNodes \X ZNodes : p[1] # p[2]}

\* A node is a router or peer (BGP-enabled or not), a network, or a node
\* without vertex type.
ZKinds ==
    {[t |-> t, a |-> a] : t \in {ROUTER, PEER}, a \in ASNums \cup {NONE}}
    \cup {[t |-> NETWORK, a |-> NONE], [t |-> UNTYPED, a |-> NONE]}

ZoneIdle ==
    /\ asmap = << >> /\ zones = << >> /\ zcur = NONE
    /\ ibgp_nodes = {} /\ ibgp_graph = EmptyGraph
    /\ prev_size = <<0, 0>> /\ passes = 0

InitZones ==
    /\ pc = "init"
    /\ AuxIdle
    /\ \E k \in [ZNodes -> ZKinds] :
          /\ vtype = [n \in ZNodes |-> k[n].t]
          /\ asnum = [n \in {m \in ZNodes : k[m].t \in {ROUTER, PEER}} |-> k[n].a]
    /\ links \in {ls \in SUBSET ZPairs : Cardinality(ls) <= MaxLinks}
    \* a node has no vertex type only when an edge brought it into the graph
    /\ \A n \in ZNodes : vtype[n] = UNTYPED => \E l \in links : n \in {l[1], l[2]}
    /\ nbrs = << >>
    /\ advertise = << >>
    /\ ZoneIdle
    /\ ExpIdle
    /\ DagIdle

\* dagVars but for err.
dagNoErr == <<net_todo, net_done, prop_out, order_checks, ebgp_graphs,
              ibgp_graphs, unmatching_order, ebgp_propagation,
              ibgp_propagation, cache, info, prev, aspath_enum, returned,
              reqs>>

\* Lines 91-99: asmap is built, zones = {}; or the call ends with the
\* KeyError of line 92.
ZonesStart ==
    /\ pc = "init"
    /\ IF BuildAsmap.exc # "none"
       THEN /\ pc' = "error"
            /\ err' = [kind |-> BuildAsmap.exc, where |-> "extract_ibgp_zones",
                       net |-> "none", node |-> "none"]
            /\ UNCHANGED <<asmap, zones>>
       ELSE /\ asmap' = BuildAsmap.ret
            /\ zones' = << >>
            /\ pc' = "zones"
            /\ UNCHANGED err
    /\ UNCHANGED <<auxVars, topoVars, expVars, dagNoErr, zcur, ibgp_nodes, ibgp_graph, prev_size, passes>>

\* Lines 100-106: the next asnum of asmap; its zone graph holds its routers.
ZoneBegin(a) ==
    /\ pc = "zones" /\ zcur = NONE
    /\ a \in DOMAIN asmap /\ a \notin DOMAIN zones
    /\ zcur' = a
    /\ ibgp_nodes' = asmap[a]
    /\ ibgp_graph' = [nodes |-> asmap[a], edges |-> {}]
    /\ prev_size' = <<Cardinality(asmap[a]), 0>>
    /\ passes' = 0
    /\ UNCHANGED <<pc, auxVars, topoVars, expVars, dagVars, asmap, zones>>

\* Lines 107-124: one pass; the zone is stored when the pass added nothing.
ZonePassStep ==
    /\ pc = "zones" /\ zcur # NONE
    /\ LET g2 == ZonePass(ibgp_graph, zcur, ibgp_nodes)
       IN  /\ ibgp_graph' = g2
           /\ passes' = passes + 1
           /\ IF GraphSize(g2) # prev_size
              THEN /\ prev_size' = GraphSize(g2)
                   /\ ibgp_nodes' = g2.nodes
                   /\ UNCHANGED <<zones, zcur>>
              ELSE /\ zones' = [a \in DOMAIN zones \cup {zcur} |->
                                   IF a = zcur THEN g2 ELSE zones[a]]
                   /\ zcur' = NONE
                   /\ UNCHANGED <<prev_size, ibgp_nodes>>
    /\ UNCHANGED <<pc, auxVars, topoVars, expVars, dagVars, asmap>>

\* Line 125: return zones.
ZonesReturn ==
    /\ pc = "zones" /\ zcur = NONE
    /\ DOMAIN zones = DOMAIN asmap
    /\ pc' = "zones_done"
    /\ UNCHANGED <<auxVars, topoVars, zoneVars, expVars, dagVars>>

NextZones ==
    \/ ZonesStart
    \/ \E a \in ASNums : ZoneBegin(a)
    \/ ZonePassStep
    \/ ZonesReturn

SpecZones == InitZones /\ [][NextZones]_vars

\* The call is one blocking sequence of steps: a step that can be taken is
\* taken.
SpecZonesFair == SpecZones /\ WF_vars(NextZones)

---------------------------------------------------------------------------
(* expand_as_path *)

\* A call that visits the elements of a list or dict which the model keeps
\* as a set may raise at more than one of them, and the order of the visits
\* decides at which: excs holds the exceptions the call can raise; when
\* excs is empty the call returns ret.
Outcome(excs, ret) == [excs |-> excs, ret |-> ret]

\* The exceptions among the outcomes of a set of calls.
ExcsOf(rs) == {r.exc : r \in rs} \ {"none"}

\* Lines 191-195: what the visit of one frontier path can raise before its
\* neighbors are tested: the assertion of get_bgp_neighbors(last_node), and
\* the one of get_bgp_asnum(neighbor) for a neighbor that is no router.
VisitExcs(path) ==
    IF get_bgp_neighbors(Last(path)).exc # "none"
    THEN {get_bgp_neighbors(Last(path)).exc}
    ELSE ExcsOf({get_bgp_asnum(nb) : nb \in get_bgp_neighbors(Last(path)).ret})

\* Lines 191-208 at a position before the last, for one frontier path and
\* one BGP neighbor of its last node: the eBGP hop to the neighbor and the
\* same-AS hops behind it. get_bgp_asnum raises for a last node (line 193),
\* a neighbor (line 195) or a neighbor's neighbor (line 206) that is no
\* router.
ExtendBy(path, neighbor, next_zone) ==
    LET curras == get_bgp_asnum(Last(path)).ret
        neighbor_as == get_bgp_asnum(neighbor).ret
        new_path == Append(path, neighbor)
    IN  IF get_bgp_asnum(Last(path)).exc # "none"
        THEN Outcome({get_bgp_asnum(Last(path)).exc}, {})
        ELSE IF get_bgp_asnum(neighbor).exc # "none"
        THEN Outcome({get_bgp_asnum(neighbor).exc}, {})
        ELSE IF curras # neighbor_as /\ neighbor \notin Range(path)
                /\ neighbor \in next_zone
        THEN Outcome(ExcsOf({get_bgp_asnum(nn) :
                                nn \in get_bgp_neighbors(neighbor).ret}),
                {new_path} \cup
                {Append(new_path, nn) : nn \in
                    {m \in get_bgp_neighbors(neighbor).ret :
                        neighbor_as = get_bgp_asnum(m).ret}})
        ELSE Outcome({}, {})

\* Lines 194-208: the results of ExtendBy for every neighbor of every path
\* whose last node answers line 192. A neighbor is extended as soon as it
\* is read, so the hop behind an accepted neighbor (line 206) may raise
\* before a later neighbor is read at line 195.
Extensions(paths, next_zone) ==
    {ExtendBy(v[1], v[2], next_zone) :
        v \in UNION {{<<p, nb>> : nb \in get_bgp_neighbors(Last(p)).ret} :
                        p \in {q \in paths :
                                  get_bgp_neighbors(Last(q)).exc = "none"}}}

\* Mutation of ExpandIter: a frontier path stays in the list when it is
\* processed (the remove of line 190 is lost).
ExpandIter_KeepAll(paths, tt, index) ==
    LET is_last == index = Len(tt)
        ext == Extensions(paths, tt[index + 1])
    IN  IF is_last THEN Outcome(UNION {VisitExcs(p) : p \in paths}, paths)
        ELSE Outcome(UNION {VisitExcs(p) : p \in paths}
                        \cup UNION {r.excs : r \in ext},
                     paths \cup UNION {r.ret : r \in ext})

\* Lines 187-208: one iteration of the loop over the AS sequence. A path of
\* the frontier is removed unless this is the last position; at the last
\* position nothing is appended, but the BGP attributes of every frontier
\* path's last node and of its neighbors are read all the same (lines
\* 192-195).
ExpandIter(paths, tt, index) ==
    LET is_last == index = Len(tt)
        ext == Extensions(paths, tt[index + 1])
    IN  IF is_last THEN Outcome(UNION {VisitExcs(p) : p \in paths}, paths)
        ELSE Outcome(UNION {VisitExcs(p) : p \in paths}
                        \cup UNION {r.excs : r \in ext},
                     UNION {r.ret : r \in ext})

RECURSIVE ExpandFrom(_, _, _), ExpandOn(_, _, _)
\* Lines 185-208: the loop from position index on.
ExpandFrom(paths, tt, index) ==
    IF index > Len(tt) THEN Outcome({}, paths)
    ELSE ExpandOn(ExpandIter(paths, tt, index), tt, index)

\* The loop ends at the first position that raises.
ExpandOn(r, tt, index) ==
    IF r.excs # {} THEN Outcome(r.excs, {})
    ELSE ExpandFrom(r.ret, tt, index + 1)

\* Line 182: the node set of the zone of every AS of the sequence.
ZoneSets(zs, path) == [i \in 1..Len(path) |-> zs[path[i]].nodes]

\* Lines 174-209 as one function; line 182 raises KeyError for an AS that
\* has no zone.
expand_as_path(zs, path, origins) ==
    IF \E i \in 1..Len(path) : path[i] \notin DOMAIN zs
    THEN Outcome({"KeyError"}, {})
    ELSE ExpandFrom({<<o>> : o \in origins}, ZoneSets(zs, path), 1)

---------------------------------------------------------------------------
(* Inputs of SpecExpand: four routers, every AS assignment (router d may   *)
(* have no AS number and be linked from b), every layout of sessions,      *)
(* every AS sequence over the zones or ending in an AS without zone, every *)
(* origin set of the first AS, every single origin, and an origin that is  *)
(* no node.                                                                *)

ERouters == {"a", "b", "c", "d"}

\* Sessions are symmetric (add_bgp_neighbor records both directions).
ESessions == {ps \in SUBSET (SUBSET ERouters) : \A e \in ps : Cardinality(e) = 2}

\* A router that may have been added again as a network after its sessions
\* were recorded (add_node replaces the vertex type and keeps the rest).
ERetyped == {"d"}

\* A router that may have no AS number (add_bgp_neighbor, graph.py lines
\* 644-651, records a session with it all the same), and the link over
\* which it then joins the zone of its neighbor (lines 115-116).
EUnnumbered == {"d"}

ELinks == {{}, {<<"b", "d">>}}

\* An AS number that no router has.
NoZoneAS == 30

\* A name that is no node of the graph.
NoNode == "zz"

InitExpand ==
    /\ pc = "expand_call"
    /\ AuxIdle
    /\ \E re \in SUBSET ERetyped :
          vtype = [n \in ERouters |-> IF n \in re THEN NETWORK ELSE ROUTER]
    /\ \E un \in SUBSET EUnnumbered :
          /\ \E as \in [ERouters \ un -> ASNums] :
                asnum = [n \in ERouters |-> IF n \in un THEN NONE ELSE as[n]]
          /\ links \in (IF un = {} THEN {{}} ELSE ELinks)
          /\ \A n \in un : vtype[n] = ROUTER
    /\ \E ss \in ESessions :
          nbrs = [n \in ERouters |-> {m \in ERouters : {n, m} \in ss}]
    /\ advertise = << >>
    /\ asmap = BuildAsmap.ret
    /\ zones = extract_ibgp_zones.ret
    /\ zcur = NONE /\ ibgp_nodes = {} /\ ibgp_graph = EmptyGraph
    /\ prev_size = <<0, 0>> /\ passes = 0
    /\ exp_path \in SeqsUpTo(DOMAIN zones, MaxSeqLen)
                     \cup {<<a, NoZoneAS>> : a \in DOMAIN zones}
    /\ exp_origins \in
          ((SUBSET {n \in routers_iter.ret : asnum[n] = exp_path[1]}) \ {{}})
             \cup {{n} : n \in ERouters}
             \cup {{NoNode}}
             \cup {{n, NoNode} : n \in {m \in routers_iter.ret :
                                          asnum[m] = exp_path[1]}}
    /\ new_paths = {} /\ exp_index = 0 /\ exp_result = {}
    /\ DagIdle

\* The exception that ended expand_as_path.
ExpandErr(kind) ==
    [kind |-> kind, where |-> "expand_as_path", net |-> "none", node |-> "none"]

\* Lines 181-183: the zones of the sequence are looked up (KeyError for an
\* AS without zone) and the frontier starts with one path per origin.
ExpandBegin ==
    /\ pc = "expand_call"
    /\ IF \E i \in 1..Len(exp_path) : exp_path[i] \notin DOMAIN zones
       THEN /\ pc' = "error"
            /\ err' = ExpandErr("KeyError")
            /\ UNCHANGED <<new_paths, exp_index>>
       ELSE /\ new_paths' = {<<o>> : o \in exp_origins}
            /\ exp_index' = 1
            /\ pc' = "expand_loop"
            /\ UNCHANGED err
    /\ UNCHANGED <<auxVars, topoVars, zoneVars, dagNoErr, exp_path, exp_origins, exp_result>>

\* Lines 185-208: one position of the AS sequence, or the exception that
\* ends the call there.
ExpandStep ==
    /\ pc = "expand_loop" /\ exp_index <= Len(exp_path)
    /\ \E r \in {ExpandIter(new_paths, ZoneSets(zones, exp_path), exp_index)} :
          IF r.excs # {}
          THEN /\ \E e \in r.excs : err' = ExpandErr(e)
               /\ pc' = "error"
               /\ UNCHANGED <<new_paths, exp_index>>
          ELSE /\ new_paths' = r.ret
               /\ exp_index' = exp_index + 1
               /\ UNCHANGED <<pc, err>>
    /\ UNCHANGED <<auxVars, topoVars, zoneVars, dagNoErr, exp_path, exp_origins, exp_result>>

\* Line 209: the frontier is returned as a set of tuples.
ExpandReturn ==
    /\ pc = "expand_loop" /\ exp_index > Len(exp_path)
    /\ exp_result' = new_paths
    /\ pc' = "expand_done"
    /\ UNCHANGED <<auxVars, topoVars, zoneVars, dagVars, exp_path, exp_origins, new_paths, exp_index>>

NextExpand == ExpandBegin \/ ExpandStep \/ ExpandReturn

SpecExpand == InitExpand /\ [][NextExpand]_vars

---------------------------------------------------------------------------
(* compute_dags: the per-prefix graphs *)

\* The destination prefixes of the requirements.
Prefixes == {"p1", "p2"}

\* A propagation graph as compute_propagation returns it: nodes, directed
\* edges, and per node the sets 'paths' and 'block' and the list 'order'.
\* A fact places one path at its last node: rank 0 is blocked, rank r > 0
\* is selected with rank r.
PropagationGraph(facts) ==
    LET ns == UNION {Range(f.path) : f \in facts}
    IN  [nodes |-> ns,
         edges |-> UNION {{<<f.path[i], f.path[i + 1]>> :
                              i \in 1..(Len(f.path) - 1)} : f \in facts},
         attr |-> [n \in ns |->
            [paths |-> {f.path : f \in {g \in facts :
                            Last(g.path) = n /\ g.rank > 0}},
             block |-> {f.path : f \in {g \in facts :
                            Last(g.path) = n /\ g.rank = 0}},
             order |-> [r \in 1..MaxRank |->
                          {f.path : f \in {g \in facts :
                              Last(g.path) = n /\ g.rank = r}}]]]]

NonEmpty(x) == x # {}

\* Lines 280-282: the empty ranks are removed from every node's order.
ClearOrder(g) ==
    [g EXCEPT !.attr = [n \in g.nodes |->
        [g.attr[n] EXCEPT !.order = SelectSeq(g.attr[n].order, NonEmpty)]]]

\* Lines 212-216: first AS of a requirement's AS path -> its origin routers.
Origins(ebgp_paths) ==
    [a \in {f[2][1] : f \in ebgp_paths} |->
        {f[1] : f \in {h \in ebgp_paths : h[2][1] = a}}]

\* Lines 219-223: every AS path selected or blocked at a node of the graph.
AllPaths(graph) ==
    UNION {graph.attr[n].paths \cup graph.attr[n].block : n \in graph.nodes}

\* Lines 224-225: the outcome of expand_as_path for every AS path whose
\* first AS has an origin.
Expansions(graph, ebgp_paths) ==
    {expand_as_path(zones, p, Origins(ebgp_paths)[p[1]]) :
        p \in {q \in AllPaths(graph) \ {<< >>} :
                  q[1] \in DOMAIN Origins(ebgp_paths)}}

\* Lines 224-225: the router paths of every AS path.
ExpandedPaths(graph, ebgp_paths) ==
    UNION {r.ret : r \in Expansions(graph, ebgp_paths)}

\* What expand_ebgp_graph can raise: IndexError at line 214 when the AS
\* path of a requirement is empty (no router of the requirement path is
\* BGP-enabled); at line 225 IndexError (an empty AS path in the graph),
\* KeyError (no origin for the first AS) or what expand_as_path raises;
\* when every AS path is expanded, KeyError at line 229 (the last router of
\* an expanded path is not in the graph).
ExpandExcs(graph, expanded, ebgp_paths) ==
    LET rs == Expansions(graph, ebgp_paths)
        first == {"IndexError" : p \in {q \in AllPaths(graph) : q = << >>}}
                 \cup {"KeyError" : p \in {q \in AllPaths(graph) \ {<< >>} :
                                        q[1] \notin DOMAIN Origins(ebgp_paths)}}
                 \cup UNION {r.excs : r \in rs}
    IN  IF \E f \in ebgp_paths : f[2] = << >> THEN {"IndexError"}
        ELSE IF first # {} THEN first
        ELSE {"KeyError" : q \in {x \in UNION {r.ret : r \in rs} :
                                     Last(x) \notin expanded.nodes}}

\* Mutation of expand_ebgp_graph: an expanded path is added to the block
\* set of its last router whether or not the router has selected it.
expand_ebgp_graph_AddAll(graph, expanded, ebgp_paths) ==
    LET eps == ExpandedPaths(graph, ebgp_paths)
    IN  [expanded EXCEPT !.attr = [n \in expanded.nodes |->
            [expanded.attr[n] EXCEPT !.block =
                @ \cup {q \in eps : Last(q) = n}]]]

\* Lines 226-232: an expanded path that its last router has not selected
\* is added to that router's block set.
expand_ebgp_graph(graph, expanded, ebgp_paths) ==
    LET eps == ExpandedPaths(graph, ebgp_paths)
    IN  [expanded EXCEPT !.attr = [n \in expanded.nodes |->
            [expanded.attr[n] EXCEPT !.block =
                @ \cup {q \in eps : Last(q) = n /\ q \notin expanded.attr[n].paths}]]]

---------------------------------------------------------------------------
(* merge_dags *)

\* Lines 241-246 / 253-258: the entry of one node for one prefix.
NodeInfo(graph, n) ==
    [order |-> graph.attr[n].order,
     paths |-> graph.attr[n].paths,
     block |-> graph.attr[n].block]

\* Mutation of MergeOne: add_node(node, nets={}) runs for a node the merged
\* graph already has, so its earlier entries are lost.
MergeOne_Reset(m, net, graph) ==
    [nodes |-> m.nodes \cup graph.nodes,
     edges |-> m.edges \cup {{e[1], e[2]} : e \in graph.edges},
     nets  |-> [n \in m.nodes \cup graph.nodes |->
                  IF n \in graph.nodes THEN (net :> NodeInfo(graph, n))
                  ELSE m.nets[n]]]

\* Mutation of MergeOne: the edges of the merged graph are replaced by
\* those of the graph instead of extended.
MergeOne_LastEdges(m, net, graph) ==
    [nodes |-> m.nodes \cup graph.nodes,
     edges |-> {{e[1], e[2]} : e \in graph.edges},
     nets  |-> [n \in m.nodes \cup graph.nodes |->
                  IF n \in graph.nodes
                  THEN (net :> NodeInfo(graph, n)) @@
                       (IF n \in m.nodes THEN m.nets[n] ELSE << >>)
                  ELSE m.nets[n]]]

\* Lines 238-248 / 250-260: one per-prefix graph is added to the merged
\* (undirected) graph: its nodes, their entry for the prefix, its edges.
MergeOne(m, net, graph) ==
    [nodes |-> m.nodes \cup graph.nodes,
     edges |-> m.edges \cup {{e[1], e[2]} : e \in graph.edges},
     nets  |-> [n \in m.nodes \cup graph.nodes |->
                  IF n \in graph.nodes
                  THEN (net :> NodeInfo(graph, n)) @@
                       (IF n \in m.nodes THEN m.nets[n] ELSE << >>)
                  ELSE m.nets[n]]]

RECURSIVE MergeAll(_, _, _)
\* Lines 237 / 249: the loop over the graphs, in the order of insertion.
MergeAll(m, nets, graphs) ==
    IF nets = << >> THEN m
    ELSE MergeAll(MergeOne(m, Head(nets), graphs[Head(nets)]), Tail(nets), graphs)
---------------------------------------------------------------------------
(* SpecExpandGraph: SpecExpand, followed by expand_ebgp_graph for the AS   *)
(* path that was expanded.                                                 *)

\* A router-level graph of the given routers that holds no path yet.
BlankGraph(ns) ==
    [nodes |-> ns, edges |-> {},
     attr |-> [n \in ns |-> [paths |-> {}, block |-> {}, order |-> << >>]]]

\* Lines 211-232, called as compute_dags line 285 calls it: the AS-level
\* graph holds the expanded AS path (selected at its last AS), the
\* requirement facts name the origins, the router-level graph is blank.
ExpandGraph ==
    /\ pc = "expand_done"
    /\ \E eg \in {PropagationGraph({[path |-> exp_path, rank |-> 1]})} :
       \E ig \in {BlankGraph(routers_iter.ret)} :
       \E ebgp_paths \in {{<<o, exp_path>> : o \in exp_origins}} :
       \E excs \in {ExpandExcs(eg, ig, ebgp_paths)} :
          IF excs # {}
          THEN /\ pc' = "error"
               /\ \E e \in excs :
                     err' = [kind |-> e, where |-> "expand_ebgp_graph",
                             net |-> "p1", node |-> "none"]
               /\ UNCHANGED ibgp_graphs
          ELSE /\ ibgp_graphs' = ("p1" :> expand_ebgp_graph(eg, ig, ebgp_paths))
               /\ pc' = "graph_expanded"
               /\ UNCHANGED err
    /\ UNCHANGED <<auxVars, topoVars, zoneVars, expVars, prop_out,
                   order_checks, reqs, net_todo, net_done, ebgp_graphs,
                   unmatching_order, ebgp_propagation, ibgp_propagation,
                   cache, info, prev, aspath_enum, returned>>

NextExpandGraph ==
    \/ ExpandBegin
    \/ ExpandStep
    \/ ExpandReturn
    \/ ExpandGraph

SpecExpandGraph == InitExpand /\ [][NextExpandGraph]_vars

---------------------------------------------------------------------------
(* partial_eval_propagated_info *)

\* None in a router-valued field.
NoRouter == "None"

Reverse(s) == [i \in 1..Len(s) |-> s[Len(s) + 1 - i]]

Front(s) == SubSeq(s, 1, Len(s) - 1)

\* Mutation of AsPathStep: the AS numbers of the two routers are not
\* compared, so every BGP hop is taken for a crossing.
AsPathStep_AnyHop(node, pr, st) ==
    LET st1 == IF is_bgp_enabled(pr) = "True"
               THEN [st EXCEPT !.peer = pr, !.external_peer = pr,
                               !.egress = node]
               ELSE st
    IN  IF st1.as_path = << >> \/ Last(st1.as_path) # get_bgp_asnum(node).ret
        THEN [st1 EXCEPT !.as_path = Append(@, get_bgp_asnum(node).ret)]
        ELSE st1

\* Lines 319-325: the body of the loop of get_as_path for a BGP-enabled
\* node whose predecessor on the path is pr.
AsPathStep(node, pr, st) ==
    LET crossing == get_bgp_asnum(node).ret # get_bgp_asnum(pr).ret
        st1 == IF is_bgp_enabled(pr) = "True"
               THEN [st EXCEPT !.peer = pr,
                        !.external_peer = IF crossing THEN pr ELSE @,
                        !.egress = IF crossing THEN node ELSE @]
               ELSE st
    IN  IF st1.as_path = << >> \/ Last(st1.as_path) # get_bgp_asnum(node).ret
        THEN [st1 EXCEPT !.as_path = Append(@, get_bgp_asnum(node).ret)]
        ELSE st1

RECURSIVE AsPathLoop(_, _, _)
\* Lines 313-325: the loop of get_as_path from position index on. A node
\* that is not BGP-enabled is skipped (line 317); is_bgp raises for a node
\* of the path that is no router of the graph (lines 317 and 319), which
\* ends the call.
AsPathLoop(path, index, st) ==
    IF index > Len(path) THEN Returned(st)
    ELSE IF is_bgp_enabled(path[index]) \notin {"True", "False"}
    THEN Raised(is_bgp_enabled(path[index]), st)
    ELSE IF is_bgp_enabled(path[index]) = "False"
    THEN AsPathLoop(path, index + 1, st)
    ELSE IF is_bgp_enabled(path[index - 1]) \notin {"True", "False"}
    THEN Raised(is_bgp_enabled(path[index - 1]), st)
    ELSE AsPathLoop(path, index + 1,
                    AsPathStep(path[index], path[index - 1], st))

\* What get_as_path has before its loop: nothing is set.
NoCrossing(as_path) ==
    [external_peer |-> NoRouter, egress |-> NoRouter, peer |-> NoRouter,
     as_path |-> as_path]

\* Line 326: the AS path is returned reversed.
AsPathResult(r) == [exc |-> r.exc, ret |-> [r.ret EXCEPT !.as_path = Reverse(@)]]

\* Lines 297-326: external_peer, egress, peer and the reversed AS path, or
\* the exception: the assertion of line 298 for an empty path, and what
\* get_as (lines 310, 312) and is_bgp raise for a node that is no router.
get_as_path(path) ==
    IF path = << >> THEN Raised("AssertionError", NoCrossing(<< >>))
    ELSE IF get_bgp_asnum(path[1]).exc # "none"
    THEN Raised(get_bgp_asnum(path[1]).exc, NoCrossing(<< >>))
    ELSE AsPathResult(AsPathLoop(path, 2,
                                 NoCrossing(<<get_bgp_asnum(path[1]).ret>>)))

\* Lines 339-343: the announcements of the source whose prefix is net.
MatchingAnns(source, net) ==
    LET anns == get_bgp_advertise(source).ret
    IN  {i \in 1..Len(anns) : anns[i].prefix = net}

\* Line 348: assert check.
HasAnnouncement(source, net) == MatchingAnns(source, net) # {}

Min(S) == CHOOSE x \in S : \A y \in S : x <= y

\* No PropagatedInfo (prev is None).
NoFact ==
    [external_peer |-> NoRouter, egress |-> NoRouter, ann_name |-> "none",
     peer |-> NoRouter, as_path |-> << >>, as_path_len |-> 0, path |-> << >>]

\* Lines 350-357: the PropagatedInfo of a path under net, from what
\* get_as_path returned; the AS path of the first matching announcement is
\* appended (break at line 343).
InfoOf(path, net, r) ==
    LET ann == get_bgp_advertise(path[1]).ret[Min(MatchingAnns(path[1], net))]
    IN  [external_peer |-> r.external_peer,
         egress |-> r.egress,
         ann_name |-> net,
         peer |-> r.peer,
         as_path |-> r.as_path \o ann.as_path,
         as_path_len |-> Len(r.as_path \o ann.as_path),
         path |-> path]

\* Lines 336-357: a path evaluated under net after get_as_path answered
\* with r. The assertion of line 348 fails when the first router of the
\* path has no announcement of the prefix.
InfoAfter(path, net, r) ==
    IF r.exc # "none" THEN Raised(r.exc, NoFact)
    ELSE IF ~HasAnnouncement(path[1], net) THEN Raised("AssertionError", NoFact)
    ELSE Returned(InfoOf(path, net, r.ret))

\* Lines 335-357: a path evaluated under net; get_as_path may raise (line
\* 335).
MakeInfo(path, net) == InfoAfter(path, net, get_as_path(path))

\* Lines 333-334: the paths the loop evaluates; a cached path is skipped.
Uncached(c, paths) == {p \in paths : p \notin DOMAIN c}

\* The prefixes of a node of the merged graph, in the order of insertion.
NetsOf(node) ==
    SelectSeq(net_done, LAMBDA net : net \in DOMAIN ibgp_propagation.nets[node])

\* The node the exception of a path names: the first node of the path that
\* is no router ("Node is not a router", graph.py line 589), or the first
\* router of the path, which lacks the announcement (line 345).
EvalErrNode(path) ==
    LET bad == {i \in 1..Len(path) :
                   is_bgp_enabled(path[i]) \notin {"True", "False"}}
    IN  IF path = << >> THEN "none"
        ELSE IF bad # {} THEN path[Min(bad)]
        ELSE path[1]

\* The exception a path raises when it is evaluated under net.
EvalErr(path, net) ==
    [kind |-> MakeInfo(path, net).exc,
     where |-> "partial_eval_propagated_info",
     net |-> net,
     node |-> EvalErrNode(path)]

\* The outcome of the first loop: the cache, the entries built, and the
\* exceptions that may have ended it (the order of a set of paths decides
\* which path is evaluated first).
EvalResult(ok, c, built, fails) ==
    [ok |-> ok, cache |-> c, built |-> built, fails |-> fails]

RECURSIVE EvalNets(_, _, _, _)
\* Lines 330-374 for one node: its prefixes in order. A path that is not
\* in the cache is evaluated; the first one that raises ends the call, and
\* the entries of the prefixes before stay as they were built.
EvalNets(node, nets, c, built) ==
    IF nets = << >> THEN EvalResult(TRUE, c, built, {})
    ELSE LET net == Head(nets)
             attrs == ibgp_propagation.nets[node][net]
             paths == attrs.paths \cup attrs.block
             fresh == Uncached(c, paths)
             made == [p \in fresh |-> MakeInfo(p, net)]
             raising == {p \in fresh : made[p].exc # "none"}
             c2 == [p \in DOMAIN c \cup fresh |->
                      IF p \in DOMAIN c THEN c[p] ELSE made[p].ret]
             order_info == [i \in 1..Len(attrs.order) |->
                              {c2[p] : p \in attrs.order[i]}]
             entry == [order_info |-> order_info,
                       paths_info |-> UNION {order_info[i] :
                                                i \in 1..Len(order_info)},
                       block_info |-> {c2[p] : p \in attrs.block}]
         IN  IF raising # {}
             THEN EvalResult(FALSE, c, built,
                             {EvalErr(p, net) : p \in raising})
             ELSE EvalNets(node, Tail(nets), c2,
                           (<<node, net>> :> entry) @@ built)

\* The facts stored at a node under a prefix (paths_info | block_info).
FactsAt(node, net) ==
    IF <<node, net>> \in DOMAIN info
    THEN info[<<node, net>>].paths_info \cup info[<<node, net>>].block_info
    ELSE {}

\* Lines 379-385: the exception find_prev_prop ends with, or "none".
\* get_bgp_asnum(node) is asked first (line 379); a path of fewer than two
\* routers returns before anything else is read (lines 380-381);
\* get_bgp_asnum(None) fails the assertion of get_bgp_attrs; a peer that is
\* no node of the merged graph, or has no entry for the prefix, is a
\* KeyError.
FindPrevExc(node, net, propagated) ==
    LET neighbor == propagated.peer
    IN  IF get_bgp_asnum(node).exc # "none" THEN get_bgp_asnum(node).exc
        ELSE IF Len(propagated.path) < 2 THEN "none"
        ELSE IF get_bgp_asnum(neighbor).exc # "none"
             THEN get_bgp_asnum(neighbor).exc
        ELSE IF neighbor \notin ibgp_propagation.nodes THEN "KeyError"
        ELSE IF net \notin DOMAIN ibgp_propagation.nets[neighbor]
             THEN "KeyError"
        ELSE "none"

FindPrevRaises(node, net, propagated) ==
    FindPrevExc(node, net, propagated) # "none"

\* Mutation of PrevMatches: the neighbor's path only has to end where this
\* path without its last router ends.
PrevMatches_ByLastRouter(propagated, neighbor_info) ==
    Last(Front(propagated.path)) = Last(neighbor_info.path)

\* Line 395: the fact of the neighbor whose path is this path without its
\* last router.
PrevMatches(propagated, neighbor_info) ==
    Front(propagated.path) = neighbor_info.path

\* Mutation of find_prev_prop: the first fact of the peer is returned,
\* whatever its path.
find_prev_prop_AnyFact(node, net, propagated) ==
    LET n_paths == FactsAt(propagated.peer, net)
    IN  IF Len(propagated.path) < 2 \/ n_paths = {} THEN NoFact
        ELSE CHOOSE ni \in n_paths : TRUE

\* Lines 376-397 when nothing raises: the first matching fact of the peer,
\* or None.
find_prev_prop(node, net, propagated) ==
    LET n_paths == FactsAt(propagated.peer, net)
        found == {ni \in n_paths : PrevMatches(propagated, ni)}
    IN  IF Len(propagated.path) < 2 \/ found = {} THEN NoFact
        ELSE CHOOSE ni \in found : TRUE

\* Lines 401-404: the facts of a node under a prefix that get a prev.
Chainable(node, net) == {f \in FactsAt(node, net) : Len(f.path) >= 2}
---------------------------------------------------------------------------
(* extract_reqs and get_bgp_path *)

\* The requirement types of synet.utils.common.
PathReq == "PathReq"
PathOrderReq == "PathOrderReq"
KConnectedPathsReq == "KConnectedPathsReq"
ECMPPathsReq == "ECMPPathsReq"

RECURSIVE BgpPathLoop(_, _)
\* Lines 143-148: the BGP-enabled routers' AS numbers in path order, an AS
\* number equal to the last one appended is skipped.
BgpPathLoop(path, bgp_path) ==
    IF path = << >> THEN bgp_path
    ELSE IF is_bgp_enabled(Head(path)) # "True"
         THEN BgpPathLoop(Tail(path), bgp_path)
         ELSE IF bgp_path = << >> \/ Last(bgp_path) # get_bgp_asnum(Head(path)).ret
              THEN BgpPathLoop(Tail(path),
                               Append(bgp_path, get_bgp_asnum(Head(path)).ret))
              ELSE BgpPathLoop(Tail(path), bgp_path)

RECURSIVE BgpPathExc(_)
\* Line 144: is_bgp_enabled raises for a node of the path that is no
\* router of the graph; the first such node ends the call.
BgpPathExc(path) ==
    IF path = << >> THEN "none"
    ELSE IF is_bgp_enabled(Head(path)) \notin {"True", "False"}
         THEN is_bgp_enabled(Head(path))
         ELSE BgpPathExc(Tail(path))

\* Lines 136-149: the AS path of a router path, reversed.
get_bgp_path(path) ==
    IF BgpPathExc(path) # "none" THEN Raised(BgpPathExc(path), << >>)
    ELSE Returned(Reverse(BgpPathLoop(path, << >>)))

\* flatten (synet.utils.common): the elements of the sets of a list.
flatten(sets) == UNION {sets[i] : i \in 1..Len(sets)}

\* What extract_reqs returns, or the exception it raises.
ReqsResult(as, full) ==
    [ok |-> TRUE, exc |-> "none", as_paths |-> as, router_paths |-> full]

ReqsRaise(e) ==
    [ok |-> FALSE, exc |-> e, as_paths |-> << >>, router_paths |-> << >>]

\* Lines 158-160: the two sets of a PathReq; get_bgp_path may raise, and
\* req.path[-1] raises IndexError for an empty path.
PathSets(path) ==
    IF get_bgp_path(path).exc # "none" THEN ReqsRaise(get_bgp_path(path).exc)
    ELSE IF path = << >> THEN ReqsRaise("IndexError")
    ELSE ReqsResult(<<{<<Last(path), get_bgp_path(path).ret>>}>>,
                    <<{<<Last(path), Reverse(path)>>}>>)

\* Lines 164-168: a KConnectedPathsReq appends one set, the facts of all
\* its member paths.
KConnectedSets(r) ==
    IF r.ok THEN ReqsResult(<<flatten(r.as_paths)>>, <<flatten(r.router_paths)>>)
    ELSE r

RECURSIVE extract_reqs(_), ExtractOne_KExtend(_), ExtractOne(_), ExtractRest(_, _)

\* Mutation of ExtractOne: the sets of a KConnectedPathsReq are added one
\* by one (extend) instead of merged into one set.
ExtractOne_KExtend(req) ==
    IF req.type = PathReq
    THEN PathSets(req.path)
    ELSE IF req.type \in {PathOrderReq, KConnectedPathsReq}
         THEN extract_reqs(req.paths)
         ELSE ReqsRaise("ValueError")

\* Lines 157-170: what one requirement adds to the two lists.
ExtractOne(req) ==
    IF req.type = PathReq
    THEN PathSets(req.path)
    ELSE IF req.type = PathOrderReq
         THEN extract_reqs(req.paths)
         ELSE IF req.type = KConnectedPathsReq
              THEN KConnectedSets(extract_reqs(req.paths))
              ELSE ReqsRaise("ValueError")

\* Lines 156, 171: the loop goes on unless the requirement raised; the
\* first requirement that raises ends the call.
ExtractRest(own, rest) ==
    IF ~own.ok THEN own
    ELSE IF ~rest.ok THEN rest
    ELSE ReqsResult(own.as_paths \o rest.as_paths,
                    own.router_paths \o rest.router_paths)

\* Lines 151-172.
extract_reqs(rs) ==
    IF rs = << >> THEN ReqsResult(<< >>, << >>)
    ELSE ExtractRest(ExtractOne(Head(rs)), extract_reqs(Tail(rs)))

---------------------------------------------------------------------------
(* Inputs of SpecDags: one topology, every small outcome of the external   *)
(* compute_propagation and check_order, every set of announcements.        *)

\* Routers a1 (AS 10), b1 and b2 (AS 20) and x (no BGP); a1 is the origin.
DRouters == {"a1", "b1", "b2", "x"}

\* What node x may be: a router without BGP, or a network (a path of a
\* propagation graph may then lead through a node that is no router).
XTypes == {ROUTER, NETWORK}

\* The vertex types of a topology whose node x has type t.
TypesWith(nodes, t) == [n \in nodes |-> IF n = "x" THEN t ELSE ROUTER]

DAsnum == [n \in DRouters |->
              CASE n = "a1" -> 10 [] n = "x" -> NONE [] OTHER -> 20]

DEdges == {{"a1", "b1"}, {"b1", "b2"}, {"a1", "x"}}

\* Every edge in both directions, and the one-way link from x to b1.
DLinks ==
    {l \in DRouters \X DRouters : {l[1], l[2]} \in DEdges} \cup {<<"x", "b1">>}

DSessions == {{"a1", "b1"}, {"b1", "b2"}}

Origin == "a1"

\* The announcement of a prefix: its AS path is what the origin learned.
Ann(p) == [prefix |-> p, as_path |-> IF p = "p1" THEN <<1, 2>> ELSE <<3>>]

\* Lists of announcements of distinct prefixes.
AdvChoices ==
    {<< >>, <<Ann("p1")>>, <<Ann("p2")>>, <<Ann("p1"), Ann("p2")>>}

\* Router paths from the origin along the links, no router twice.
RouterPaths ==
    {p \in SeqsUpTo(DOMAIN vtype, MaxPathLen) :
        /\ p[1] = Origin
        /\ NoRepeat(p)
        /\ \A i \in 1..(Len(p) - 1) : <<p[i], p[i + 1]>> \in links}

\* AS paths from the origin's AS over the AS numbers in use, no AS twice.
AsPaths ==
    {p \in SeqsUpTo(DOMAIN asmap, MaxPathLen) :
        /\ p[1] = asnum[Origin]
        /\ NoRepeat(p)}

RECURSIVE SubsetsUpTo(_, _)
\* The subsets of S with at most k elements.
SubsetsUpTo(S, k) ==
    IF k <= 0 THEN {{}}
    ELSE SubsetsUpTo(S, k - 1)
         \cup {T \cup {x} : T \in SubsetsUpTo(S, k - 1), x \in S}

\* A fact of a graph that compute_propagation returns: a path with its
\* rank (0: blocked), in the router view or in the AS view.
RouterFacts == [path : RouterPaths, rank : 0..MaxRank]

AsFacts == [path : AsPaths, rank : 0..MaxRank]

\* A path is selected with one rank or blocked, not both.
OnePlace(fs) == \A f, g \in fs : f.path = g.path => f = g

\* The facts of the graphs compute_propagation returned for a prefix.
FactsOf(net) ==
    IF net \in DOMAIN prop_out
    THEN Cardinality(prop_out[net].ibgp) + Cardinality(prop_out[net].ebgp)
    ELSE 0

RECURSIVE FactsUsed(_)
FactsUsed(nets) ==
    IF nets = {} THEN 0
    ELSE FactsOf(CHOOSE n \in nets : TRUE)
         + FactsUsed(nets \ {CHOOSE n \in nets : TRUE})

\* What the two calls of compute_propagation for a prefix may return
\* (lines 277, 279): the graphs fixed for this prefix beforehand, or any
\* two graphs with facts within what is left of MaxFacts.
Propagations(net) ==
    IF net \in DOMAIN prop_out THEN {prop_out[net]}
    ELSE {[ibgp |-> pr[1], ebgp |-> pr[2]] :
             pr \in {qs \in SubsetsUpTo(RouterFacts, MaxFacts - FactsUsed(Prefixes))
                            \X SubsetsUpTo(AsFacts, MaxFacts - FactsUsed(Prefixes)) :
                        /\ Cardinality(qs[1]) + Cardinality(qs[2])
                              <= MaxFacts - FactsUsed(Prefixes)
                        /\ OnePlace(qs[1]) /\ OnePlace(qs[2])}}

\* A requirement for a prefix: a PathReq from b1 to the origin, a PathReq
\* whose path holds no BGP-enabled router (its AS path is empty), or an
\* ECMPPathsReq of two paths (a type extract_reqs does not know).
DPathReq(net) ==
    [type |-> PathReq, dst_net |-> net, path |-> <<"b1", Origin>>,
     paths |-> << >>]

DNoBgpReq(net) ==
    [type |-> PathReq, dst_net |-> net, path |-> <<"x">>, paths |-> << >>]

DEcmpReq(net) ==
    [type |-> ECMPPathsReq, dst_net |-> net, path |-> << >>,
     paths |-> <<[type |-> PathReq, path |-> <<"b1", Origin>>, paths |-> << >>],
                 [type |-> PathReq, path |-> <<"b1", "x", Origin>>,
                  paths |-> << >>]>>]

DReqs ==
    {DPathReq(net) : net \in Prefixes} \cup {DEcmpReq(net) : net \in Prefixes}
        \cup {DNoBgpReq("p1")}

\* An argument of add_path_req that is no instance of Req.
NotAReq == [type |-> "str", dst_net |-> "none", path |-> << >>, paths |-> << >>]

\* isinstance(req, Req)
IsReq(req) ==
    req.type \in {PathReq, PathOrderReq, KConnectedPathsReq, ECMPPathsReq}

\* The requirement lists handed to the constructor.
ReqChoices == {<< >>} \cup SeqsUpTo(DReqs, MaxReqs)

RECURSIVE NetOrder(_, _)
\* Lines 267-271: the prefixes in the order of their first requirement.
NetOrder(rs, seen) ==
    IF rs = << >> THEN seen
    ELSE IF \E i \in 1..Len(seen) : seen[i] = Head(rs).dst_net
         THEN NetOrder(Tail(rs), seen)
         ELSE NetOrder(Tail(rs), Append(seen, Head(rs).dst_net))

\* Lines 267-271: net_reqs[net], the requirements of a prefix in order.
NetReqs(net) == SelectSeq(reqs, LAMBDA r : r.dst_net = net)

\* What check_order reports for a prefix: nothing, or one violation.
Violation(p) == <<"unmatching", p>>

\* The state after __init__ (lines 36-52): the zones are extracted. (The
\* router IDs it sets on the topology and in the solver context play no
\* part here.)
InitDags ==
    /\ pc = "constructed"
    /\ AuxIdle
    /\ \E t \in XTypes : vtype = TypesWith(DRouters, t)
    /\ asnum = DAsnum
    /\ links = DLinks
    /\ nbrs = [n \in DRouters |-> {m \in DRouters : {n, m} \in DSessions}]
    /\ \E adv \in AdvChoices : advertise = (Origin :> adv)
    /\ asmap = BuildAsmap.ret
    /\ zones = extract_ibgp_zones.ret
    /\ zcur = NONE /\ ibgp_nodes = {} /\ ibgp_graph = EmptyGraph
    /\ prev_size = <<0, 0>> /\ passes = 0
    /\ ExpIdle
    /\ reqs \in ReqChoices
    /\ prop_out = << >> /\ order_checks = << >>
    /\ net_todo = << >> /\ net_done = << >>
    /\ ebgp_graphs = << >> /\ ibgp_graphs = << >>
    /\ unmatching_order = Unbound
    /\ ebgp_propagation = NoMerged /\ ibgp_propagation = NoMerged
    /\ cache = << >> /\ info = << >> /\ prev = << >>
    /\ aspath_enum = {} /\ returned = Unbound /\ err = NoErr

dagRest == <<prop_out, order_checks, reqs>>

\* Lines 127-134: add_path_req(req) appends a requirement; an argument
\* that is no Req fails the assertion.
add_path_req(req) ==
    /\ pc = "constructed"
    /\ Len(reqs) < MaxReqs
    /\ IF IsReq(req)
       THEN /\ reqs' = Append(reqs, req)
            /\ UNCHANGED <<pc, err>>
       ELSE /\ pc' = "error"
            /\ err' = [kind |-> "AssertionError", where |-> "add_path_req",
                       net |-> "none", node |-> "none"]
            /\ UNCHANGED reqs
    /\ UNCHANGED <<auxVars, topoVars, zoneVars, expVars, prop_out, order_checks,
                   net_todo, net_done, ebgp_graphs, ibgp_graphs,
                   unmatching_order, ebgp_propagation, ibgp_propagation,
                   cache, info, prev, aspath_enum, returned>>

\* Lines 267-271: the requirements are grouped by destination prefix.
DagsBegin ==
    /\ pc = "constructed"
    /\ net_todo' = NetOrder(reqs, << >>)
    /\ pc' = "dags_loop"
    /\ UNCHANGED <<auxVars, topoVars, zoneVars, expVars, dagRest, net_done, ebgp_graphs,
                   ibgp_graphs, unmatching_order, ebgp_propagation,
                   ibgp_propagation, cache, info, prev,
                   aspath_enum, returned, err>>

\* Lines 274-287: one prefix. extract_reqs gives the requirement facts or
\* raises; compute_propagation gives the two graphs, the empty
\* ranks of the router view are removed, check_order's answer (nothing, or
\* one violation) is assigned to unmatching_order, the router view is
\* expanded, and the two graphs are stored. An exception of the expansion
\* ends the call.
PrefixStep ==
    /\ pc = "dags_loop" /\ net_todo # << >>
    /\ \E net \in {Head(net_todo)} :
       \E r \in {extract_reqs(NetReqs(net))} :
          IF ~r.ok
          THEN /\ pc' = "error"
               /\ err' = [kind |-> r.exc, where |-> "extract_reqs",
                          net |-> net, node |-> "none"]
               /\ UNCHANGED <<net_todo, net_done, ebgp_graphs, ibgp_graphs,
                              unmatching_order, prop_out, order_checks>>
          ELSE
            \E out \in Propagations(net) :
            \E chk \in (IF net \in DOMAIN order_checks
                        THEN {order_checks[net]}
                        ELSE {{}, {Violation(net)}}) :
            \E ebgp_paths \in {flatten(r.as_paths)} :
            \E eg \in {PropagationGraph(out.ebgp)} :
            \E ig \in {ClearOrder(PropagationGraph(out.ibgp))} :
               /\ prop_out' = (net :> out) @@ prop_out
               /\ order_checks' = (net :> chk) @@ order_checks
               /\ unmatching_order' = [bound |-> TRUE, val |-> chk]
               /\ \E excs \in {ExpandExcs(eg, ig, ebgp_paths)} :
                  IF excs # {}
                  THEN /\ pc' = "error"
                       /\ \E e \in excs :
                             err' = [kind |-> e,
                                     where |-> "expand_ebgp_graph",
                                     net |-> net, node |-> "none"]
                       /\ UNCHANGED <<net_todo, net_done, ebgp_graphs,
                                      ibgp_graphs>>
                  ELSE /\ ebgp_graphs' = (net :> eg) @@ ebgp_graphs
                       /\ ibgp_graphs' =
                             (net :> expand_ebgp_graph(eg, ig, ebgp_paths))
                                @@ ibgp_graphs
                       /\ net_todo' = Tail(net_todo)
                       /\ net_done' = Append(net_done, net)
                       /\ UNCHANGED <<pc, err>>
    /\ UNCHANGED <<auxVars, topoVars, zoneVars, expVars, reqs, ebgp_propagation,
                   ibgp_propagation, cache, info, prev,
                   aspath_enum, returned>>

\* Mutation of Merge: merge_dags is called inside the loop over the
\* prefixes.
Merge_InLoop ==
    /\ pc = "dags_loop"
    /\ ebgp_propagation' = MergeAll(NoMerged, net_done, ebgp_graphs)
    /\ ibgp_propagation' = MergeAll(NoMerged, net_done, ibgp_graphs)
    /\ pc' = "merged"
    /\ UNCHANGED <<auxVars, topoVars, zoneVars, expVars, dagRest, net_todo, net_done,
                   ebgp_graphs, ibgp_graphs, unmatching_order, cache, info,
                   prev, aspath_enum, returned, err>>

\* Lines 289, 234-262: merge_dags, both views.
Merge ==
    /\ pc = "dags_loop" /\ net_todo = << >>
    /\ ebgp_propagation' = MergeAll(NoMerged, net_done, ebgp_graphs)
    /\ ibgp_propagation' = MergeAll(NoMerged, net_done, ibgp_graphs)
    /\ pc' = "merged"
    /\ UNCHANGED <<auxVars, topoVars, zoneVars, expVars, dagRest, net_todo, net_done,
                   ebgp_graphs, ibgp_graphs, unmatching_order, cache, info,
                   prev, aspath_enum, returned, err>>

\* The orders in which a loop may visit the nodes of a graph.
Orders(S) ==
    {o \in [1..Cardinality(S) -> S] : \A i, j \in DOMAIN o : o[i] = o[j] => i = j}

RECURSIVE EvalNodes(_, _, _), EvalRest(_, _)
\* Lines 329-374: the nodes in the order ord, stopping at the node where
\* the evaluation of a path raises.
EvalNodes(ord, c, built) ==
    IF ord = << >> THEN EvalResult(TRUE, c, built, {})
    ELSE EvalRest(ord, EvalNets(Head(ord), NetsOf(Head(ord)), c, built))

\* The loop goes on to the next node unless a path raised.
EvalRest(ord, r) ==
    IF r.ok THEN EvalNodes(Tail(ord), r.cache, r.built) ELSE r

\* Mutation of EvalFacts: an exception discards the merged graphs.
EvalFacts_Rollback ==
    /\ pc = "merged"
    /\ \E ord \in Orders(ibgp_propagation.nodes) :
          \E r \in {EvalNodes(ord, << >>, << >>)} :
              /\ info' = r.built
              /\ IF r.ok
                 THEN /\ cache' = r.cache
                      /\ pc' = "facts"
                      /\ UNCHANGED <<err, ebgp_propagation, ibgp_propagation>>
                 ELSE /\ \E e \in r.fails : err' = e
                      /\ pc' = "error"
                      /\ ibgp_propagation' = NoMerged
                      /\ ebgp_propagation' = NoMerged
                      /\ UNCHANGED cache
    /\ UNCHANGED <<auxVars, topoVars, zoneVars, expVars, dagRest, net_todo, net_done,
                   ebgp_graphs, ibgp_graphs, unmatching_order, prev,
                   aspath_enum, returned>>

\* Lines 328-374: the facts of every node and prefix are built, the nodes
\* in the order of the merged graph. An exception of get_as_path (line 335)
\* or the failed assertion of line 348 ends the call; the entries built
\* before it stay in the merged graph.
EvalFacts ==
    /\ pc = "merged"
    /\ \E ord \in Orders(ibgp_propagation.nodes) :
          \E r \in {EvalNodes(ord, << >>, << >>)} :
              /\ info' = r.built
              /\ IF r.ok
                 THEN /\ cache' = r.cache
                      /\ pc' = "facts"
                      /\ UNCHANGED err
                 ELSE /\ \E e \in r.fails : err' = e
                      /\ pc' = "error"
                      /\ UNCHANGED cache
    /\ UNCHANGED <<auxVars, topoVars, zoneVars, expVars, dagRest, net_todo, net_done,
                   ebgp_graphs, ibgp_graphs, unmatching_order,
                   ebgp_propagation, ibgp_propagation, prev,
                   aspath_enum, returned>>

\* prev (and attrs['origins']) of the given facts of a node under a prefix.
PrevOf(node, net, fs) ==
    [k \in {<<node, net, f.path>> : f \in fs} |->
        find_prev_prop(node, net, CHOOSE f \in fs : f.path = k[3])]

\* The chainable facts of a node under a prefix for which find_prev_prop
\* returns.
ChainFine(node, net) ==
    {f \in Chainable(node, net) : ~FindPrevRaises(node, net, f)}

RECURSIVE ChainNets(_, _, _)
\* Lines 400-409 for one node: its prefixes in order, stopping at the
\* prefix under which find_prev_prop raises.
ChainNets(node, nets, pv) ==
    IF nets = << >> THEN [ok |-> TRUE, prev |-> pv, node |-> node, net |-> "none"]
    ELSE IF \E f \in Chainable(node, Head(nets)) : FindPrevRaises(node, Head(nets), f)
         THEN [ok |-> FALSE, prev |-> pv, node |-> node, net |-> Head(nets)]
         ELSE ChainNets(node, Tail(nets),
                        PrevOf(node, Head(nets), Chainable(node, Head(nets))) @@ pv)

RECURSIVE ChainNodes(_, _), ChainRest(_, _)
\* Lines 399-409: the nodes in the order ord.
ChainNodes(ord, pv) ==
    IF ord = << >> THEN [ok |-> TRUE, prev |-> pv, node |-> "none", net |-> "none"]
    ELSE ChainRest(ord, ChainNets(Head(ord), NetsOf(Head(ord)), pv))

\* The loop goes on to the next node unless find_prev_prop raised.
ChainRest(ord, r) ==
    IF r.ok THEN ChainNodes(Tail(ord), r.prev) ELSE r

\* Lines 399-409: every fact with a path of two or more routers gets its
\* prev. When find_prev_prop raises, the call ends; the facts of that node
\* and prefix visited before the raising one (any of the others, by the
\* order of the set) have their prev.
ChainFacts ==
    /\ pc = "facts"
    /\ \E ord \in Orders(ibgp_propagation.nodes) :
          \E r \in {ChainNodes(ord, << >>)} :
              IF r.ok
              THEN /\ prev' = r.prev
                   /\ pc' = "chained"
                   /\ UNCHANGED err
              ELSE /\ \E visited \in SUBSET ChainFine(r.node, r.net) :
                         prev' = PrevOf(r.node, r.net, visited) @@ r.prev
                   /\ \E f \in Chainable(r.node, r.net) \ ChainFine(r.node, r.net) :
                         err' = [kind |-> FindPrevExc(r.node, r.net, f),
                                 where |-> "find_prev_prop",
                                 net |-> r.net, node |-> r.node]
                   /\ pc' = "error"
    /\ UNCHANGED <<auxVars, topoVars, zoneVars, expVars, dagRest, net_todo, net_done,
                   ebgp_graphs, ibgp_graphs, unmatching_order,
                   ebgp_propagation, ibgp_propagation, cache, info,
                   aspath_enum, returned>>

\* Lines 410, 292-293: the distinct AS paths are registered as an enum.
RegisterEnum ==
    /\ pc = "chained"
    /\ aspath_enum' = {cache[p].as_path : p \in DOMAIN cache}
    /\ pc' = "enum"
    /\ UNCHANGED <<auxVars, topoVars, zoneVars, expVars, dagRest, net_todo, net_done,
                   ebgp_graphs, ibgp_graphs, unmatching_order,
                   ebgp_propagation, ibgp_propagation, cache, info, prev,
                   returned, err>>

\* Mutation of Return: unmatching_order starts as an empty list, which is
\* returned when no prefix was processed.
Return_EmptyList ==
    /\ pc = "enum"
    /\ returned' = IF unmatching_order.bound THEN unmatching_order
                   ELSE [bound |-> TRUE, val |-> {}]
    /\ pc' = "done"
    /\ UNCHANGED <<auxVars, topoVars, zoneVars, expVars, dagRest, net_todo, net_done,
                   ebgp_graphs, ibgp_graphs, unmatching_order,
                   ebgp_propagation, ibgp_propagation, cache, info, prev,
                   aspath_enum, err>>

\* Line 294: return unmatching_order (unbound when no prefix was processed).
Return ==
    /\ pc = "enum"
    /\ IF unmatching_order.bound
       THEN /\ returned' = unmatching_order
            /\ pc' = "done"
            /\ UNCHANGED err
       ELSE /\ err' = [kind |-> "UnboundLocalError", where |-> "compute_dags",
                       net |-> "none", node |-> "none"]
            /\ pc' = "error"
            /\ UNCHANGED returned
    /\ UNCHANGED <<auxVars, topoVars, zoneVars, expVars, dagRest, net_todo, net_done,
                   ebgp_graphs, ibgp_graphs, unmatching_order,
                   ebgp_propagation, ibgp_propagation, cache, info, prev,
                   aspath_enum>>

NextDags ==
    \/ \E req \in DReqs \cup {NotAReq} : add_path_req(req)
    \/ DagsBegin
    \/ PrefixStep
    \/ Merge
    \/ EvalFacts
    \/ ChainFacts
    \/ RegisterEnum
    \/ Return

SpecDags == InitDags /\ [][NextDags]_vars

---------------------------------------------------------------------------
(* Inputs of SpecFacts: compute_dags on a topology of three ASes, so that *)
(* a path crosses more than one AS border and facts chain over two hops.  *)

\* Bound of SpecFacts: facts that compute_propagation returns in a run.
MaxChain == 3

\* Routers a1 (AS 10), b1 and b2 (AS 20), c1 (AS 30) and x (no BGP).
FRouters == {"a1", "b1", "b2", "c1", "x"}

FAsnum == [n \in FRouters |->
              CASE n = "a1" -> 10 [] n = "c1" -> 30 [] n = "x" -> NONE
                [] OTHER -> 20]

FEdges == {{"a1", "b1"}, {"b1", "b2"}, {"b1", "c1"}, {"b2", "c1"},
           {"a1", "x"}, {"x", "b1"}}

FLinks == {l \in FRouters \X FRouters : {l[1], l[2]} \in FEdges}

FSessions == {{"a1", "b1"}, {"b1", "b2"}, {"b1", "c1"}, {"b2", "c1"}}

\* The state after __init__ on the topology of three ASes: one requirement
\* for p1, which the origin announces; compute_propagation will return up
\* to MaxChain facts in the router view and none in the AS view.
InitFacts ==
    /\ pc = "constructed"
    /\ AuxIdle
    /\ \E t \in XTypes : vtype = TypesWith(FRouters, t)
    /\ asnum = FAsnum
    /\ links = FLinks
    /\ nbrs = [n \in FRouters |-> {m \in FRouters : {n, m} \in FSessions}]
    /\ advertise = (Origin :> <<Ann("p1")>>)
    /\ asmap = BuildAsmap.ret
    /\ zones = extract_ibgp_zones.ret
    /\ zcur = NONE /\ ibgp_nodes = {} /\ ibgp_graph = EmptyGraph
    /\ prev_size = <<0, 0>> /\ passes = 0
    /\ ExpIdle
    /\ reqs = <<DPathReq("p1")>>
    /\ \E rfs \in SubsetsUpTo(RouterFacts, MaxChain) :
          /\ OnePlace(rfs)
          /\ prop_out = ("p1" :> [ibgp |-> rfs, ebgp |-> {}])
    /\ order_checks = ("p1" :> {})
    /\ net_todo = << >> /\ net_done = << >>
    /\ ebgp_graphs = << >> /\ ibgp_graphs = << >>
    /\ unmatching_order = Unbound
    /\ ebgp_propagation = NoMerged /\ ibgp_propagation = NoMerged
    /\ cache = << >> /\ info = << >> /\ prev = << >>
    /\ aspath_enum = {} /\ returned = Unbound /\ err = NoErr

SpecFacts == InitFacts /\ [][NextDags]_vars

---------------------------------------------------------------------------
(* Inputs of SpecReqs: the topology of SpecDags; every small list of        *)
(* requirements whose paths lead along the links to the origin.            *)

\* Requirement paths run from the traffic's source to the announcing
\* router; one names a source that is no node of the graph.
ReqPaths == {Reverse(p) : p \in RouterPaths} \cup {<<"zz", Origin>>}

APathReq(path) == [type |-> PathReq, path |-> path, paths |-> << >>]

\* A requirement with k member paths (a PathReq is its own single path).
ReqsOfSize(k) ==
    (IF k = 1 THEN {APathReq(p) : p \in ReqPaths} ELSE {})
    \cup {[type |-> t, path |-> << >>, paths |-> ms] :
             t \in {PathOrderReq, KConnectedPathsReq, ECMPPathsReq},
             ms \in [1..k -> {APathReq(p) : p \in ReqPaths}]}

RECURSIVE ReqLists(_, _)
\* The lists of at most n requirements with at most k member paths in all.
ReqLists(n, k) ==
    IF n = 0 THEN {<< >>}
    ELSE {<< >>} \cup
         UNION {UNION {{<<r>> \o rest : rest \in ReqLists(n - 1, k - j)} :
                          r \in ReqsOfSize(j)} : j \in 0..k}

InitReqs ==
    /\ pc = "reqs_call"
    /\ GraphIdle /\ RmapIdle
    /\ vtype = [n \in DRouters |-> ROUTER]
    /\ asnum = DAsnum
    /\ links = DLinks
    /\ nbrs = [n \in DRouters |-> {m \in DRouters : {n, m} \in DSessions}]
    /\ advertise = (Origin :> <<Ann("p1")>>)
    /\ ZoneIdle /\ ExpIdle /\ DagIdle
    /\ xreqs \in ReqLists(MaxReqs, MaxFacts)
    /\ as_paths = << >> /\ router_paths = << >> /\ held = << >>

\* Lines 151-172: extract_reqs(reqs) returns its two lists or raises.
ExtractReqs ==
    /\ pc = "reqs_call"
    /\ \E r \in {extract_reqs(xreqs)} :
          IF r.ok
          THEN /\ as_paths' = r.as_paths
               /\ router_paths' = r.router_paths
               /\ pc' = "reqs_done"
               /\ UNCHANGED err
          ELSE /\ err' = [kind |-> r.exc, where |-> "extract_reqs",
                          net |-> "none", node |-> "none"]
               /\ pc' = "error"
               /\ UNCHANGED <<as_paths, router_paths>>
    /\ UNCHANGED <<graphVars, rmapVars, topoVars, zoneVars, expVars, xreqs, held, net_todo, net_done,
                   prop_out, order_checks, ebgp_graphs, ibgp_graphs,
                   unmatching_order, ebgp_propagation, ibgp_propagation,
                   cache, info, prev, aspath_enum, returned, reqs>>

\* The facts of the extracted router paths under prefix p1: each path is
\* held by its last router (compute_propagation) and evaluated as lines
\* 335-357 evaluate it.
HoldFacts ==
    /\ pc = "reqs_done"
    /\ held' = [n \in {Last(e[2]) : e \in flatten(router_paths)} |->
                   {MakeInfo(e[2], "p1").ret :
                       e \in {d \in flatten(router_paths) : Last(d[2]) = n}}]
    /\ pc' = "facts_held"
    /\ UNCHANGED <<graphVars, rmapVars, topoVars, zoneVars, expVars, dagVars, xreqs, as_paths,
                   router_paths>>

NextReqs ==
    \/ ExtractReqs
    \/ HoldFacts

SpecReqs == InitReqs /\ [][NextReqs]_vars

---------------------------------------------------------------------------
(* SpecGraph: the mutating calls of NetworkGraph (tekton/graph.py) *)

\* The attribute keys of lines 27-28.
VERTEX_TYPE == "VERTEX_TYPE"
EDGE_TYPE == "EDGE_TYPE"

\* EDGETYPE, lines 49-53.
ROUTER_EDGE == "ROUTER_EDGE"
NETWORK_EDGE == "NETWORK_EDGE"
PEER_EDGE == "PEER_EDGE"

\* The node names a call may pass.
GNodes == {"g1", "g2"}

\* The keyword arguments a caller may pass to add_node: none, a vertex
\* type, or an attribute that is not the vertex type.
NodeAttrs ==
    {<< >>} \cup {(VERTEX_TYPE :> t) : t \in {ROUTER, NETWORK, PEER}}
            \cup {("label" :> "x")}

\* The keyword arguments a caller may pass to add_edge.
EdgeAttrs ==
    {<< >>} \cup {(EDGE_TYPE :> t) : t \in {ROUTER_EDGE, NETWORK_EDGE, PEER_EDGE}}
            \cup {("label" :> "x")}

\* Mutation of TypeSet: the type check of add_node / add_edge is lost.
TypeSet_Always(attr, key) == TRUE

\* Lines 85-87 and 185-187: type_set.
TypeSet(attr, key) == DOMAIN attr # {} /\ key \in DOMAIN attr

\* Two assert statements in a row.
AssertBoth(e1, e2) == IF Asserted(e1) # "ok" THEN Asserted(e1) ELSE Asserted(e2)

\* networkx DiGraph.add_node(n, **attr): the node is added when missing and
\* its attributes are updated.
NxAddNode(n, attr) ==
    IF VERTEX_TYPE \in DOMAIN attr THEN (n :> attr[VERTEX_TYPE]) @@ vtype
    ELSE IF n \in DOMAIN vtype THEN vtype
    ELSE (n :> UNTYPED) @@ vtype

\* networkx DiGraph.add_edge(u, v, **attr): missing end points are added
\* without attributes.
NxEdgeNodes(u, v) ==
    [n \in DOMAIN vtype \cup {u, v} |->
        IF n \in DOMAIN vtype THEN vtype[n] ELSE UNTYPED]

\* The edge attribute after DiGraph.add_edge(u, v, **attr).
NxEdgeType(u, v, attr) ==
    IF EDGE_TYPE \in DOMAIN attr THEN (<<u, v>> :> attr[EDGE_TYPE]) @@ etype
    ELSE IF <<u, v>> \in DOMAIN etype THEN etype
    ELSE (<<u, v>> :> UNTYPED) @@ etype

\* The state after construction: NetworkGraph() holds no node and no edge.
InitGraph ==
    /\ pc = "graph"
    /\ vtype = << >> /\ asnum = << >> /\ links = {} /\ nbrs = << >>
    /\ advertise = << >>
    /\ ZoneIdle /\ ExpIdle /\ DagIdle /\ ReqIdle /\ RmapIdle
    /\ etype = << >>
    /\ gcall = NoCall

graphRest == <<pc, asnum, nbrs, advertise, zoneVars, expVars, dagVars, reqVars,
               rmapVars>>

\* Lines 175-192 as called with the outcome of the caller's checks: the
\* edge is added unless a check failed or no edge type was passed.
EdgeCall(op, checks, u, v, attr) ==
    LET res == IF checks # "ok" THEN checks
               ELSE IF TypeSet(attr, EDGE_TYPE) THEN "ok" ELSE "ValueError"
    IN  /\ gcall' = [op |-> op, u |-> u, v |-> v,
                     typed |-> EDGE_TYPE \in DOMAIN attr, res |-> res]
        /\ IF res = "ok"
           THEN /\ vtype' = NxEdgeNodes(u, v)
                /\ links' = links \cup {<<u, v>>}
                /\ etype' = NxEdgeType(u, v, attr)
           ELSE UNCHANGED <<vtype, links, etype>>
        /\ UNCHANGED graphRest

\* Lines 76-90: add_node(n, **attr).
add_node(n, attr) ==
    /\ pc = "graph"
    /\ gcall' = [op |-> "add_node", u |-> n, v |-> "none",
                 typed |-> VERTEX_TYPE \in DOMAIN attr,
                 res |-> IF TypeSet(attr, VERTEX_TYPE) THEN "ok" ELSE "ValueError"]
    /\ IF TypeSet(attr, VERTEX_TYPE)
       THEN vtype' = NxAddNode(n, attr)
       ELSE UNCHANGED vtype
    /\ UNCHANGED <<links, etype, graphRest>>

\* Lines 175-192: add_edge(u, v, **attr).
add_edge(u, v, attr) ==
    /\ pc = "graph"
    /\ EdgeCall("add_edge", "ok", u, v, attr)

\* Lines 194-205: add_router_edge(u, v); both assertions test u.
add_router_edge(u, v) ==
    /\ pc = "graph"
    /\ EdgeCall("add_router_edge",
                AssertBoth(is_local_router(u), is_local_router(u)),
                u, v, (EDGE_TYPE :> ROUTER_EDGE))

\* Lines 213-227: add_peer_edge(u, v).
add_peer_edge(u, v) ==
    /\ pc = "graph"
    /\ EdgeCall("add_peer_edge",
                AssertBoth(OrElse(is_peer(u), is_peer(v)),
                           OrElse(is_router(u), is_router(v))),
                u, v, (EDGE_TYPE :> PEER_EDGE))

\* Lines 229-242: add_network_edge(u, v).
add_network_edge(u, v) ==
    /\ pc = "graph"
    /\ EdgeCall("add_network_edge",
                AssertBoth(OrElse(is_router(u), is_router(v)),
                           OrElse(is_network(u), is_network(v))),
                u, v, (EDGE_TYPE :> NETWORK_EDGE))

\* The descriptions a caller may pass: none (the default "To <router>" is
\* used), a text of at most 80 characters, a longer text.
Descriptions == {"None", "short", "long"}

\* Lines 587-594: get_bgp_attrs creates the 'bgp' dict of a router that has
\* none, with no neighbors.
WithBgpAttrs(f, n) == IF n \in DOMAIN f THEN f ELSE (n :> {}) @@ f

\* Mutation of RecordSession: only router_a's map gets the session.
RecordSession_OneWay(f, a, b) ==
    [n \in DOMAIN f |-> IF n = a THEN f[n] \cup {b} ELSE f[n]]

\* Lines 649-650: neighbors_a[router_b] = ..., neighbors_b[router_a] = ...
RecordSession(f, a, b) ==
    [n \in DOMAIN f |->
        IF n = a /\ n = b THEN f[n] \cup {a}
        ELSE IF n = a THEN f[n] \cup {b}
        ELSE IF n = b THEN f[n] \cup {a}
        ELSE f[n]]

\* The assertions of lines 646 and 648 carry this message.
AlreadyConfigured == "AssertionError: already has BGP neighbor"

\* Lines 628-659: add_bgp_neighbor(router_a, router_b, description=...).
\* get_bgp_neighbors asserts that the node is a router (line 589) and
\* creates its BGP attributes; the two assertions reject a session either
\* side already lists; both maps get the session; the description is
\* asserted to be at most 80 characters (line 683) after that.
add_bgp_neighbor(a, b, description) ==
    /\ pc = "graph"
    /\ LET ra == Asserted(is_router(a))
           rb == Asserted(is_router(b))
           fa == WithBgpAttrs(nbrs, a)
           fb == WithBgpAttrs(fa, b)
       IN  IF ra # "ok"
           THEN /\ nbrs' = nbrs
                /\ gcall' = [op |-> "add_bgp_neighbor", u |-> a, v |-> b,
                             typed |-> FALSE, res |-> ra]
           ELSE IF rb # "ok"
           THEN /\ nbrs' = fa
                /\ gcall' = [op |-> "add_bgp_neighbor", u |-> a, v |-> b,
                             typed |-> FALSE, res |-> rb]
           ELSE IF b \in fb[a] \/ a \in fb[b]
           THEN /\ nbrs' = fb
                /\ gcall' = [op |-> "add_bgp_neighbor", u |-> a, v |-> b,
                             typed |-> FALSE, res |-> AlreadyConfigured]
           ELSE /\ nbrs' = RecordSession(fb, a, b)
                /\ gcall' = [op |-> "add_bgp_neighbor", u |-> a, v |-> b,
                             typed |-> FALSE,
                             res |-> IF description = "long"
                                     THEN "AssertionError" ELSE "ok"]
    /\ UNCHANGED <<vtype, links, etype, pc, asnum, advertise, zoneVars,
                   expVars, dagVars, reqVars, rmapVars>>

\* The node whose AS number and advertisements a caller sets.
GSetNodes == {"g1"}

\* The values a caller may pass as AS number: an int, or a text.
AsnumArgs == {[type |-> "int", val |-> 10], [type |-> "str", val |-> NONE]}

\* Lines 596-599: set_bgp_asnum(node, asnum). The AS number is asserted to
\* be an int; get_bgp_attrs asserts that the node is a router (line 589)
\* and creates its BGP attributes; the AS number is stored.
set_bgp_asnum(node, arg) ==
    /\ pc = "graph"
    /\ LET res == IF arg.type # "int" THEN "AssertionError"
                  ELSE get_bgp_attrs(node)
       IN  /\ gcall' = [op |-> "set_bgp_asnum", u |-> node, v |-> "none",
                        typed |-> FALSE, res |-> res]
           /\ IF res = "ok"
              THEN /\ asnum' = (node :> arg.val) @@ asnum
                   /\ nbrs' = WithBgpAttrs(nbrs, node)
              ELSE UNCHANGED <<asnum, nbrs>>
    /\ UNCHANGED <<vtype, links, etype, pc, advertise, zoneVars,
                   expVars, dagVars, reqVars, rmapVars>>

\* Lines 714-718: add_bgp_advertise(node, announcement). get_bgp_advertise
\* asserts that the node is a router (line 589) and creates its BGP
\* attributes and its dict of advertisements (lines 709-711); the dict is
\* keyed by the announcement, so an announcement added again is held once.
add_bgp_advertise(node, announcement) ==
    /\ pc = "graph"
    /\ LET res == get_bgp_attrs(node)
           held_now == get_bgp_advertise(node).ret
       IN  /\ gcall' = [op |-> "add_bgp_advertise", u |-> node, v |-> "none",
                        typed |-> FALSE, res |-> res]
           /\ IF res = "ok"
              THEN /\ advertise' =
                         (node :> IF announcement \in Range(held_now)
                                  THEN held_now
                                  ELSE Append(held_now, announcement))
                            @@ advertise
                   /\ nbrs' = WithBgpAttrs(nbrs, node)
              ELSE UNCHANGED <<advertise, nbrs>>
    /\ UNCHANGED <<vtype, links, etype, pc, asnum, zoneVars,
                   expVars, dagVars, reqVars, rmapVars>>

NextGraph ==
    \/ \E n \in GNodes, attr \in NodeAttrs : add_node(n, attr)
    \/ \E u \in GNodes : \E v \in GNodes \ {u} :
          \E attr \in EdgeAttrs : add_edge(u, v, attr)
    \/ \E u \in GNodes : \E v \in GNodes \ {u} : add_router_edge(u, v)
    \/ \E u \in GNodes : \E v \in GNodes \ {u} : add_peer_edge(u, v)
    \/ \E u \in GNodes : \E v \in GNodes \ {u} : add_network_edge(u, v)
    \/ \E a \in GNodes, b \in GNodes, description \in Descriptions :
          add_bgp_neighbor(a, b, description)
    \/ \E node \in GSetNodes, arg \in AsnumArgs : set_bgp_asnum(node, arg)
    \/ \E node \in GSetNodes : add_bgp_advertise(node, Ann("p1"))

SpecGraph == InitGraph /\ [][NextGraph]_vars

---------------------------------------------------------------------------
(* SpecRmap: deserialize_route_map and serialize_route_map                 *)
(* (netcomplete/netcomplete_ebgp_eval.py)                                  *)

\* The placeholder of a value left for the solver, and its test.
VALUENOTSET == "EMPTY?Value"
is_empty(x) == x = VALUENOTSET

\* tekton.bgp.Access.
AccessPermit == "Access.permit"
AccessDeny == "Access.deny"

\* Python's None and a Python list, where a field may hold either.
None == [none |-> TRUE, items |-> << >>]
List(s) == [none |-> FALSE, items |-> s]

\* Python's "not x" for None or a list.
Falsy(x) == x.none \/ x.items = << >>

\* dict.get(k, default).
Get(f, k, default) == IF k \in DOMAIN f THEN f[k] ELSE default

\* The community values in use; Community(c) is the object built from the
\* text c, and ValueOf gives its value attribute.
CommunityValues == {"100:1", "100:2"}
Community(c) == "Community(" \o c \o ")"
ValueOf(comm) == CHOOSE c \in CommunityValues : Community(c) = comm

RECURSIVE ConcatAll(_)
\* The elements of a list of lists, in order.
ConcatAll(ss) == IF ss = << >> THEN << >> ELSE Head(ss) \o ConcatAll(Tail(ss))

\* A list comprehension with a filter: [f(x) for x in s if keep(x)].
Comprehend(s, f(_), keep(_)) ==
    ConcatAll([i \in 1..Len(s) |-> IF keep(s[i]) THEN <<f(s[i])>> ELSE << >>])

\* Lines 883-888: deserialize_acces; the assertion of line 886 fails for a
\* text that is neither permit nor deny.
deserialize_acces(access) ==
    IF is_empty(access) THEN Returned(VALUENOTSET)
    ELSE IF access \notin {"permit", "deny", VALUENOTSET}
    THEN Raised("AssertionError", VALUENOTSET)
    ELSE Returned(IF access = "permit" THEN AccessPermit ELSE AccessDeny)

\* Mutation of ser_access: every access is written as permit.
ser_access_Permit(access) == "permit"

\* Lines 946-947: ser_access.
ser_access(access) == IF access = AccessPermit THEN "permit" ELSE "deny"

\* Lines 874-879: one serialized action as an action object.
DeserializeAction(action) ==
    IF action.action = "ActionSetLocalPref"
    THEN [cls |-> "ActionSetLocalPref", value |-> action.value]
    ELSE [cls |-> "ActionSetCommunity",
          communities |-> [i \in 1..Len(action.communities) |->
                              IF is_empty(action.communities[i])
                              THEN action.communities[i]
                              ELSE Community(action.communities[i])],
          additive |-> action.additive]

\* Lines 869-880: deserialize_actions; an action of another kind is skipped.
deserialize_actions(actions) ==
    IF Falsy(actions) THEN None
    ELSE List(Comprehend(actions.items, DeserializeAction,
                         LAMBDA a : a.action \in {"ActionSetLocalPref",
                                                  "ActionSetCommunity"}))

\* Lines 891-895: deserialize_iplist; it raises what deserialize_acces
\* raises.
deserialize_iplist(iplist, inv_prefix_map) ==
    [exc |-> deserialize_acces(iplist.access).exc,
     ret |-> [name |-> iplist.name,
              access |-> deserialize_acces(iplist.access).ret,
              networks |-> [i \in 1..Len(iplist.networks) |->
                               Get(inv_prefix_map, iplist.networks[i],
                                   iplist.networks[i])]]]

\* Lines 900-904: the CommunityList built by deserialize_comm_list, unless
\* deserialize_acces raises.
CommListOf(commslist) ==
    [exc |-> deserialize_acces(commslist.access).exc,
     ret |-> [list_id |-> commslist.list_id,
              access |-> deserialize_acces(commslist.access).ret,
              communities |-> [i \in 1..Len(commslist.communities) |->
                                  IF is_empty(commslist.communities[i])
                                  THEN commslist.communities[i]
                                  ELSE Community(commslist.communities[i])]]]

\* The name of a prefix list that has none: '' or None ("not
\* prefix_list.name", graph.py line 898, holds of both). The list_id None
\* of a community list is NONE.
NONAME == ""

\* isinstance(x, CommunityList), isinstance(x, IpPrefixList).
IsCommunityList(x) == DOMAIN x = {"list_id", "access", "communities"}

IsIpPrefixList(x) == DOMAIN x = {"name", "access", "networks"}

\* The outcome of a call on the lists of a router: the exception if any,
\* the list the call was about as the call left it, the lists registered on
\* the router and the graph's counter after the call.
ListsResult(exc, ret, lists) == [exc |-> exc, ret |-> ret, lists |-> lists]

RECURSIVE FreeId(_, _)
\* graph.py lines 772-773: the counter is drawn until it gives a value
\* that is no key of the lists; n is the value it gives next.
FreeId(n, lists) == IF n \in DOMAIN lists THEN FreeId(n + 1, lists) ELSE n

\* graph.py lines 758-780, add_bgp_community_list(node, community_list) on
\* the lists of node: a list without id gets the next free value of the
\* counter; the list is registered under its id unless the id is taken.
WithCommList(lists, node, cl) ==
    IF ~IsCommunityList(cl) THEN ListsResult("AssertionError", cl, lists)
    ELSE IF get_bgp_attrs(node) # "ok"
    THEN ListsResult(get_bgp_attrs(node), cl, lists)
    ELSE IF cl.list_id = NONE
    THEN ListsResult("none",
            [cl EXCEPT !.list_id = FreeId(lists.counter, lists.comm)],
            [lists EXCEPT
                !.comm = (FreeId(lists.counter, lists.comm) :>
                             [cl EXCEPT !.list_id =
                                 FreeId(lists.counter, lists.comm)]) @@ @,
                !.counter = FreeId(lists.counter, lists.comm) + 1])
    ELSE IF cl.list_id \in DOMAIN lists.comm
    THEN ListsResult("none", cl, lists)
    ELSE ListsResult("none", cl, [lists EXCEPT !.comm = (cl.list_id :> cl) @@ @])

\* getattr(x, 'list_id', x) and getattr(x, 'name', x): an argument that is
\* no list is the id or the name itself, written Key(k).
Key(k) == [key |-> k]

KeyOf(x, attr) == IF attr \in DOMAIN x THEN x[attr] ELSE x.key

\* A function without its value at k.
Without(f, k) == [x \in DOMAIN f \ {k} |-> f[x]]

\* graph.py lines 782-785, del_community_list(node, community_list).
WithoutCommList(lists, node, arg) ==
    IF get_bgp_attrs(node) # "ok"
    THEN ListsResult(get_bgp_attrs(node), arg, lists)
    ELSE IF KeyOf(arg, "list_id") = NONE
            \/ KeyOf(arg, "list_id") \notin DOMAIN lists.comm
    THEN ListsResult("KeyError", arg, lists)
    ELSE ListsResult("none", arg,
            [lists EXCEPT !.comm = Without(@, KeyOf(arg, "list_id"))])

\* graph.py line 901: 'ip_list_{}_{}'.format(node, n).
IpListName(node, n) == "ip_list_" \o node \o "_" \o ToString(n)

RECURSIVE FreeName(_, _, _)
\* graph.py lines 900-901: the counter is drawn until it gives a name that
\* is no key of the lists; the result is the value drawn last.
FreeName(node, n, lists) ==
    IF lists # << >> /\ IpListName(node, n) \in DOMAIN lists
    THEN FreeName(node, n + 1, lists)
    ELSE n

\* graph.py lines 888-892, get_ip_preflix_lists(node): self._node[node].
IpListsExc(node) == IF has_node(node) THEN "none" ELSE "KeyError"

\* graph.py lines 894-906, add_ip_prefix_list(node, prefix_list) on the
\* lists of node: a list without name gets a name made from the counter;
\* the list replaces the one registered under its name.
WithIpList(lists, node, ipl) ==
    IF ~IsIpPrefixList(ipl) THEN ListsResult("AssertionError", ipl, lists)
    ELSE IF IpListsExc(node) # "none" THEN ListsResult(IpListsExc(node), ipl, lists)
    ELSE IF ipl.name = NONAME
    THEN ListsResult("none",
            [ipl EXCEPT !.name = IpListName(node,
                                    FreeName(node, lists.counter, lists.ip))],
            [lists EXCEPT
                !.ip = (IpListName(node, FreeName(node, lists.counter, lists.ip))
                           :> [ipl EXCEPT !.name = IpListName(node,
                                    FreeName(node, lists.counter, lists.ip))])
                       @@ @,
                !.counter = FreeName(node, lists.counter, lists.ip) + 1])
    ELSE ListsResult("none", ipl, [lists EXCEPT !.ip = (ipl.name :> ipl) @@ @])

\* graph.py lines 908-910, del_ip_prefix_list(node, prefix_list).
WithoutIpList(lists, node, arg) ==
    IF IpListsExc(node) # "none" THEN ListsResult(IpListsExc(node), arg, lists)
    ELSE IF lists.ip = << >> \/ KeyOf(arg, "name") \notin DOMAIN lists.ip
    THEN ListsResult("KeyError", arg, lists)
    ELSE ListsResult("none", arg,
            [lists EXCEPT !.ip = Without(@, KeyOf(arg, "name"))])

\* Lines 898-908 given the list built: the access is asserted to be set; a
\* list whose id is registered on the router is asserted to equal the
\* registered one, any other is registered (and given an id if it has
\* none).
CommListChecked(lists, node, c) ==
    IF c.exc # "none" THEN ListsResult(c.exc, c.ret, lists)
    ELSE IF is_empty(c.ret.access) THEN ListsResult("AssertionError", c.ret, lists)
    ELSE IF get_bgp_attrs(node) # "ok"
    THEN ListsResult(get_bgp_attrs(node), c.ret, lists)
    ELSE IF c.ret.list_id # NONE /\ c.ret.list_id \in DOMAIN lists.comm
    THEN IF c.ret = lists.comm[c.ret.list_id]
         THEN ListsResult("none", c.ret, lists)
         ELSE ListsResult("AssertionError", c.ret, lists)
    ELSE WithCommList(lists, node, c.ret)

\* Lines 898-909: deserialize_comm_list(topo, node, commslist).
deserialize_comm_list(lists, node, commslist) ==
    CommListChecked(lists, node, CommListOf(commslist))

\* Lines 921-922: the prefix list is built and registered.
IpListAdded(lists, node, r) ==
    IF r.exc # "none" THEN ListsResult(r.exc, r.ret, lists)
    ELSE WithIpList(lists, node, r.ret)

\* The loop of deserialize_matches ended with an exception.
MatchesRaised(e, lists) == [exc |-> e, ret |-> None, lists |-> lists]

RECURSIVE MatchesLoop(_, _, _, _, _), MatchesOn(_, _, _, _, _, _)
\* Lines 916-928: the loop of deserialize_matches; ret is the list built so
\* far, lists the lists registered on the router. A match of another type
\* raises NotImplementedError (line 928).
MatchesLoop(matches, node, inv_prefix_map, lists, ret) ==
    IF matches = << >> THEN [exc |-> "none", ret |-> List(ret), lists |-> lists]
    ELSE LET match == Head(matches)
         IN  IF match.match_type = "MatchNextHop"
             THEN MatchesLoop(Tail(matches), node, inv_prefix_map, lists,
                     Append(ret, [cls |-> "MatchNextHop",
                                  nexthop |-> Get(inv_prefix_map, match.nexthop,
                                                  match.nexthop)]))
             ELSE IF match.match_type = "MatchIpPrefixListList"
             THEN MatchesOn(Tail(matches), node, inv_prefix_map, ret,
                     "MatchIpPrefixListList",
                     IpListAdded(lists, node,
                         deserialize_iplist(match.prefix_list, inv_prefix_map)))
             ELSE IF match.match_type = "MatchCommunitiesList"
             THEN MatchesOn(Tail(matches), node, inv_prefix_map, ret,
                     "MatchCommunitiesList",
                     deserialize_comm_list(lists, node, match.communities_list))
             ELSE MatchesRaised("NotImplementedError", lists)

\* Lines 923, 926: the match of the list is appended, the list as the
\* registration left it; or the loop ends with the exception.
MatchesOn(rest, node, inv_prefix_map, ret, cls, r) ==
    IF r.exc # "none" THEN MatchesRaised(r.exc, r.lists)
    ELSE MatchesLoop(rest, node, inv_prefix_map, r.lists,
            Append(ret, IF cls = "MatchIpPrefixListList"
                        THEN [cls |-> cls, iplist |-> r.ret]
                        ELSE [cls |-> cls, commlist |-> r.ret]))

\* Lines 912-929: deserialize_matches.
deserialize_matches(lists, node, matches, inv_prefix_map) ==
    IF Falsy(matches) THEN [exc |-> "none", ret |-> None, lists |-> lists]
    ELSE MatchesLoop(matches.items, node, inv_prefix_map, lists, << >>)

\* tekton.bgp.RouteMapLine: a line without matches or actions holds the
\* empty list.
RouteMapLine(matches, actions, access, lineno) ==
    [matches |-> IF matches.none THEN << >> ELSE matches.items,
     actions |-> IF actions.none THEN << >> ELSE actions.items,
     access |-> access, lineno |-> lineno]

\* Lines 861-866: deserialize_route_map_line, given the outcome of
\* deserialize_matches; it raises what deserialize_acces raises.
LineOf(line, matches) ==
    [exc |-> deserialize_acces(line.access).exc,
     ret |-> RouteMapLine(matches, deserialize_actions(line.actions),
                          deserialize_acces(line.access).ret, line.lineno)]

RECURSIVE LinesLoop(_, _, _, _, _), LinesRest(_, _, _, _, _, _)
\* Lines 855-858: the loop of deserialize_route_map.
LinesLoop(rmap, node, inv_prefix_map, lists, lines) ==
    IF rmap = << >> THEN [exc |-> "none", lines |-> lines, lists |-> lists]
    ELSE LinesRest(rmap, node, inv_prefix_map, lines, Head(rmap),
                   deserialize_matches(lists, node, Head(rmap).matches,
                                       inv_prefix_map))

\* The loop goes on unless deserialize_matches or deserialize_acces
\* raised.
LinesRest(rmap, node, inv_prefix_map, lines, line, m) ==
    IF m.exc # "none"
    THEN [exc |-> m.exc, lines |-> lines, lists |-> m.lists]
    ELSE IF LineOf(line, m.ret).exc # "none"
    THEN [exc |-> LineOf(line, m.ret).exc, lines |-> lines, lists |-> m.lists]
    ELSE LinesLoop(Tail(rmap), node, inv_prefix_map, m.lists,
                   Append(lines, LineOf(line, m.ret).ret))

\* Lines 932-943: serialize_action; the empty list stands for None. An
\* action of another class raises NotImplementedError (line 943).
serialize_action(action) ==
    IF action.cls = "ActionSetLocalPref"
    THEN IF is_empty(action.value) THEN Returned(<< >>)
         ELSE Returned(<<[action |-> "ActionSetLocalPref",
                          value |-> action.value]>>)
    ELSE IF action.cls = "ActionSetCommunity"
    THEN IF Comprehend(action.communities, ValueOf, LAMBDA c : ~is_empty(c)) = << >>
         THEN Returned(<< >>)
         ELSE Returned(<<[action |-> "ActionSetCommunity",
                          communities |-> Comprehend(action.communities, ValueOf,
                                                     LAMBDA c : ~is_empty(c)),
                          additive |-> action.additive]>>)
    ELSE Raised("NotImplementedError", << >>)

\* Lines 950-968: serialize_match; the empty list stands for None. A match
\* of another class raises NotImplementedError (line 968).
serialize_match(match, prefix_map) ==
    IF match.cls = "MatchNextHop"
    THEN IF is_empty(match.nexthop) THEN Returned(<< >>)
         ELSE Returned(<<[match_type |-> "MatchNextHop",
                          nexthop |-> Get(prefix_map, match.nexthop,
                                          match.nexthop)]>>)
    ELSE IF match.cls = "MatchIpPrefixListList"
    THEN IF Comprehend(match.iplist.networks, LAMBDA c : Get(prefix_map, c, c),
                       LAMBDA c : ~is_empty(c)) = << >>
         THEN Returned(<< >>)
         ELSE Returned(<<[match_type |-> "MatchIpPrefixListList",
                 prefix_list |->
                    [name |-> match.iplist.name,
                     access |-> ser_access(match.iplist.access),
                     networks |-> Comprehend(match.iplist.networks,
                                             LAMBDA c : Get(prefix_map, c, c),
                                             LAMBDA c : ~is_empty(c))]]>>)
    ELSE IF match.cls = "MatchCommunitiesList"
    THEN IF Comprehend(match.commlist.communities, ValueOf,
                       LAMBDA c : ~is_empty(c)) = << >>
         THEN Returned(<< >>)
         ELSE Returned(<<[match_type |-> "MatchCommunitiesList",
                 communities_list |->
                    [list_id |-> match.commlist.list_id,
                     access |-> ser_access(match.commlist.access),
                     communities |-> Comprehend(match.commlist.communities,
                                                ValueOf, LAMBDA c : ~is_empty(c))]]>>)
    ELSE Raised("NotImplementedError", << >>)

\* Lines 976-982: "x if x else None" for the list of the serialized items.
OrNone(items) == IF items = << >> THEN None ELSE List(items)

RECURSIVE FirstExc(_)
\* The exception of the first call of a list of calls that raised, if any.
FirstExc(rs) ==
    IF rs = << >> THEN "none"
    ELSE IF Head(rs).exc # "none" THEN Head(rs).exc
    ELSE FirstExc(Tail(rs))

\* The values a list of calls returned, in order.
Rets(rs) == ConcatAll([i \in 1..Len(rs) |-> rs[i].ret])

\* Lines 973-989: the body of the loop of serialize_route_map for one line:
\* the matches are serialized first, then the actions.
SerializeLine(name, line, prefix_map) ==
    IF is_empty(line.access) THEN Returned(<< >>)
    ELSE IF FirstExc([i \in 1..Len(line.matches) |->
                         serialize_match(line.matches[i], prefix_map)]
                     \o [i \in 1..Len(line.actions) |->
                            serialize_action(line.actions[i])]) # "none"
    THEN Raised(FirstExc([i \in 1..Len(line.matches) |->
                             serialize_match(line.matches[i], prefix_map)]
                         \o [i \in 1..Len(line.actions) |->
                                serialize_action(line.actions[i])]), << >>)
    ELSE Returned(<<[name |-> name,
            access |-> ser_access(line.access),
            lineno |-> line.lineno,
            matches |-> OrNone(Rets([i \in 1..Len(line.matches) |->
                                   serialize_match(line.matches[i], prefix_map)])),
            actions |-> OrNone(Rets([i \in 1..Len(line.actions) |->
                                   serialize_action(line.actions[i])]))]>>)

\* Lines 971-990: serialize_route_map.
serialize_route_map(rmap, prefix_map) ==
    IF FirstExc([i \in 1..Len(rmap.lines) |->
                    SerializeLine(rmap.name, rmap.lines[i], prefix_map)]) # "none"
    THEN Raised(FirstExc([i \in 1..Len(rmap.lines) |->
                    SerializeLine(rmap.name, rmap.lines[i], prefix_map)]), << >>)
    ELSE Returned(Rets([i \in 1..Len(rmap.lines) |->
                    SerializeLine(rmap.name, rmap.lines[i], prefix_map)]))

\* Inputs: route maps of at most MaxRmapLines lines with, over all their
\* lines, at most MaxMatches matches, at most MaxActions actions and at
\* most MaxItems matches and actions.
MaxRmapLines == 2
MaxMatches == 2
MaxActions == 2
MaxItems == 3

\* prefix_map gives the name of a prefix and inv_prefix_map the prefix of a
\* name; either may be the empty dict (line 1105).
PrefixMaps == {<< >>, ("10.0.0.0/24" :> "N1")}
InvPrefixMaps == {<< >>, ("N1" :> "10.0.0.0/24")}

RmapName == "RMap_a1_from_b1"

\* Serialized matches: a next hop written as a prefix, a prefix list whose
\* networks are written by name, a prefix list without networks, a
\* community list, a prefix list whose access is neither permit nor deny,
\* and a match of a type deserialize_matches does not know.
JMatches ==
    { [match_type |-> "MatchNextHop", nexthop |-> "10.0.0.0/24"],
      [match_type |-> "MatchIpPrefixListList",
       prefix_list |-> [name |-> "L1", access |-> "deny",
                        networks |-> <<"N1", "N2">>]],
      [match_type |-> "MatchIpPrefixListList",
       prefix_list |-> [name |-> "L3", access |-> "permit",
                        networks |-> << >>]],
      [match_type |-> "MatchCommunitiesList",
       communities_list |-> [list_id |-> 1, access |-> "permit",
                             communities |-> <<"100:2", "100:1">>]],
      [match_type |-> "MatchIpPrefixListList",
       prefix_list |-> [name |-> "L2", access |-> "allow",
                        networks |-> <<"N1">>]],
      [match_type |-> "MatchAsPath", as_path |-> "65000"] }

\* Serialized actions: the two kinds, a set-community action without
\* communities, and an action of a kind deserialize_actions does not know.
JActions ==
    { [action |-> "ActionSetLocalPref", value |-> "200"],
      [action |-> "ActionSetCommunity", communities |-> <<"100:1">>,
       additive |-> TRUE],
      [action |-> "ActionSetCommunity", communities |-> << >>,
       additive |-> FALSE],
      [action |-> "ActionSetNextHop", value |-> "N1"] }

\* The accesses of a serialized line: permit, deny, the placeholder, and a
\* text that is no access.
JAccess == {"permit", "deny", VALUENOTSET, "allow"}

\* The line numbers of a route map of k lines: ascending or descending.
LineNos(k) == {[i \in 1..k |-> 10 * i], [i \in 1..k |-> 10 * (k + 1 - i)]}

\* The lists of at most n elements of S.
ListsUpTo(S, n) == {<< >>} \cup SeqsUpTo(S, n)

\* The number of elements of the lists of a list of lists.
TotalLen(ls) == Len(ConcatAll(ls))

RECURSIVE ListsWithin(_, _, _)
\* The lists of k lists of elements of S that hold at most n elements in
\* all.
ListsWithin(k, S, n) ==
    IF k = 0 THEN {<< >>}
    ELSE UNION {{<<l>> \o rest : rest \in ListsWithin(k - 1, S, n - Len(l))} :
                l \in ListsUpTo(S, n)}

\* A serialized route map writes a line without matches, or without
\* actions, as null or as the empty list.
Empties == {None, List(<< >>)}

\* The field of a serialized line that holds the list items.
JField(items, empty) == IF items = << >> THEN empty ELSE List(items)

\* The serialized route map whose lines have the accesses, line numbers,
\* matches and actions given.
JRmap(access, nos, matches, actions, empty) ==
    [i \in 1..Len(nos) |->
        [name |-> RmapName, access |-> access[i], lineno |-> nos[i],
         matches |-> JField(matches[i], empty),
         actions |-> JField(actions[i], empty)]]

\* Match and action objects; a value may be the placeholder, and a match
\* may be of a class serialize_match does not know.
OMatches ==
    { [cls |-> "MatchNextHop", nexthop |-> "10.0.0.0/24"],
      [cls |-> "MatchNextHop", nexthop |-> VALUENOTSET],
      [cls |-> "MatchCommunitiesList",
       commlist |-> [list_id |-> 2, access |-> AccessPermit,
                     communities |-> <<VALUENOTSET>>]],
      [cls |-> "MatchAsPath", as_path |-> "65000"] }

OActions ==
    { [cls |-> "ActionSetLocalPref", value |-> "200"],
      [cls |-> "ActionSetLocalPref", value |-> VALUENOTSET] }

\* The accesses of a line: permit, deny or the placeholder.
OAccess == {AccessPermit, AccessDeny, VALUENOTSET}

\* The route map whose lines have the accesses, line numbers, matches and
\* actions given.
ORmap(access, nos, matches, actions) ==
    [name |-> RmapName,
     lines |-> [i \in 1..Len(nos) |->
                   [matches |-> matches[i], actions |-> actions[i],
                    access |-> access[i], lineno |-> nos[i]]]]

\* The router the route maps and the lists belong to.
RmapNode == "a1"

\* The calls that draw from the counter are made while it is at most
\* MaxCounter.
MaxCounter == 2

\* Serialized matches under a list: a prefix list without name, community
\* lists without id and with the id 1 (two of different contents), a
\* community list without communities, one that holds a placeholder, and a
\* named prefix list.
LMatches ==
    { [match_type |-> "MatchIpPrefixListList",
       prefix_list |-> [name |-> NONAME, access |-> "permit",
                        networks |-> <<"N1">>]],
      [match_type |-> "MatchIpPrefixListList",
       prefix_list |-> [name |-> "L1", access |-> "deny",
                        networks |-> <<"N1", "N2">>]],
      [match_type |-> "MatchCommunitiesList",
       communities_list |-> [list_id |-> NONE, access |-> "permit",
                             communities |-> <<"100:1">>]],
      [match_type |-> "MatchCommunitiesList",
       communities_list |-> [list_id |-> 1, access |-> "permit",
                             communities |-> <<"100:2", "100:1">>]],
      [match_type |-> "MatchCommunitiesList",
       communities_list |-> [list_id |-> 1, access |-> "deny",
                             communities |-> <<"100:2">>]],
      [match_type |-> "MatchCommunitiesList",
       communities_list |-> [list_id |-> 2, access |-> "permit",
                             communities |-> << >>]],
      [match_type |-> "MatchCommunitiesList",
       communities_list |-> [list_id |-> 3, access |-> "permit",
                             communities |-> <<"100:1", VALUENOTSET>>]] }

\* The serialized route maps of one line whose matches are under lists.
LRmaps ==
    {<<[name |-> RmapName, access |-> "permit", lineno |-> 10,
        matches |-> List(ms), actions |-> None]>> :
       ms \in SeqsUpTo(LMatches, MaxMatches)}

\* An argument that is neither a list nor a key.
NotAList == [cls |-> "str"]

\* The arguments of add_bgp_community_list and of add_ip_prefix_list.
CommListArgs ==
    { [list_id |-> NONE, access |-> AccessPermit,
       communities |-> <<Community("100:1")>>],
      [list_id |-> 1, access |-> AccessDeny,
       communities |-> <<Community("100:2")>>],
      NotAList }

IpListArgs ==
    { [name |-> NONAME, access |-> AccessPermit, networks |-> <<"10.0.0.0/24">>],
      [name |-> "L1", access |-> AccessPermit, networks |-> <<"10.0.0.0/24">>],
      NotAList }

\* The arguments of del_community_list and of del_ip_prefix_list: a list,
\* or its id or name.
CommListDelArgs == (CommListArgs \ {NotAList}) \cup {Key(1), Key(2)}

IpListDelArgs == (IpListArgs \ {NotAList}) \cup {Key("L1"), Key(IpListName(RmapNode, 1))}

\* The node argument of the calls on the lists: the router, or a node the
\* graph lacks.
ListNodes == {RmapNode, NoNode}

\* The runs that begin with deserialize_route_map.
DeserializeFirst == {"deserialize_first", "lists_first"}

InitRmap ==
    /\ pc = "rmap_start"
    /\ vtype = (RmapNode :> ROUTER) /\ asnum = << >> /\ links = {} /\ nbrs = << >>
    /\ advertise = << >>
    /\ ZoneIdle /\ ExpIdle /\ DagIdle /\ ReqIdle /\ GraphIdle
    /\ rmap_maps \in [prefix_map : PrefixMaps, inv_prefix_map : InvPrefixMaps]
    /\ \/ /\ rmap_dir = "deserialize_first"
          /\ \E k \in 0..MaxRmapLines :
                \E matches \in ListsWithin(k, JMatches, MaxMatches),
                   actions \in ListsWithin(k, JActions, MaxActions),
                   access \in [1..k -> JAccess],
                   nos \in LineNos(k), empty \in Empties :
                    /\ TotalLen(matches) + TotalLen(actions) <= MaxItems
                    /\ rmap_in = JRmap(access, nos, matches, actions, empty)
       \/ /\ rmap_dir = "serialize_first"
          /\ \E k \in 0..MaxRmapLines :
                \E matches \in ListsWithin(k, OMatches, MaxMatches),
                   actions \in ListsWithin(k, OActions, MaxActions),
                   access \in [1..k -> OAccess], nos \in LineNos(k) :
                    /\ TotalLen(matches) + TotalLen(actions) <= MaxItems
                    /\ rmap_in = ORmap(access, nos, matches, actions)
       \/ rmap_dir = "lists_first" /\ rmap_in \in LRmaps
    /\ rmap_mid = << >> /\ rmap_out = << >>
    /\ rmap_lists = NoLists

rmapRest == <<topoVars, zoneVars, expVars, net_todo, net_done, prop_out,
              order_checks, ebgp_graphs, ibgp_graphs, unmatching_order,
              ebgp_propagation, ibgp_propagation, cache, info, prev,
              aspath_enum, returned, reqs, reqVars, graphVars,
              rmap_dir, rmap_maps, rmap_in>>

\* The exception that ended a conversion.
RmapErr(kind, where) ==
    [kind |-> kind, where |-> where, net |-> "none", node |-> "none"]

\* Lines 854-858: deserialize_route_map(topo, node, name, rmap,
\* inv_prefix_map) on the input or on what serialize_route_map returned.
\* The lists registered on the router before an exception stay registered.
DeserializeRouteMap ==
    /\ \/ rmap_dir \in DeserializeFirst /\ pc = "rmap_start"
       \/ rmap_dir = "serialize_first" /\ pc = "rmap_mid"
    /\ \E r \in {LinesLoop(IF pc = "rmap_start" THEN rmap_in ELSE rmap_mid,
                           RmapNode, rmap_maps.inv_prefix_map, rmap_lists,
                           << >>)} :
          /\ rmap_lists' = r.lists
          /\ IF r.exc # "none"
             THEN /\ pc' = "rmap_error"
                  /\ err' = RmapErr(r.exc, "deserialize_route_map")
                  /\ UNCHANGED <<rmap_mid, rmap_out>>
             ELSE IF pc = "rmap_start"
             THEN /\ rmap_mid' = [name |-> RmapName, lines |-> r.lines]
                  /\ pc' = "rmap_mid"
                  /\ UNCHANGED <<rmap_out, err>>
             ELSE /\ rmap_out' = [name |-> RmapName, lines |-> r.lines]
                  /\ pc' = "rmap_end"
                  /\ UNCHANGED <<rmap_mid, err>>
    /\ UNCHANGED rmapRest

\* Lines 971-990: serialize_route_map(rmap, prefix_map) on the input or on
\* what deserialize_route_map returned.
SerializeRouteMap ==
    /\ \/ rmap_dir = "serialize_first" /\ pc = "rmap_start"
       \/ rmap_dir \in DeserializeFirst /\ pc = "rmap_mid"
    /\ \E r \in {serialize_route_map(IF pc = "rmap_start" THEN rmap_in
                                      ELSE rmap_mid, rmap_maps.prefix_map)} :
          IF r.exc # "none"
          THEN /\ pc' = "rmap_error"
               /\ err' = RmapErr(r.exc, "serialize_route_map")
               /\ UNCHANGED <<rmap_mid, rmap_out>>
          ELSE IF pc = "rmap_start"
          THEN /\ rmap_mid' = r.ret
               /\ pc' = "rmap_mid"
               /\ UNCHANGED <<rmap_out, err>>
          ELSE /\ rmap_out' = r.ret
               /\ pc' = "rmap_end"
               /\ UNCHANGED <<rmap_mid, err>>
    /\ UNCHANGED <<rmap_lists, rmapRest>>

\* A call on the lists of a router, made before the route map is
\* deserialized, ended as r says.
ListCall(r, where) ==
    /\ rmap_dir = "lists_first" /\ pc = "rmap_start"
    /\ rmap_lists' = r.lists
    /\ IF r.exc # "none"
       THEN pc' = "rmap_error" /\ err' = RmapErr(r.exc, where)
       ELSE UNCHANGED <<pc, err>>
    /\ UNCHANGED <<rmap_mid, rmap_out, rmapRest>>

\* graph.py lines 758-780: add_bgp_community_list(node, community_list).
add_bgp_community_list ==
    \E node \in ListNodes, cl \in CommListArgs :
        /\ rmap_lists.counter <= MaxCounter
        /\ ListCall(WithCommList(rmap_lists, node, cl), "add_bgp_community_list")

\* graph.py lines 782-785: del_community_list(node, community_list).
del_community_list ==
    \E node \in ListNodes, arg \in CommListDelArgs :
        ListCall(WithoutCommList(rmap_lists, node, arg), "del_community_list")

\* graph.py lines 894-906: add_ip_prefix_list(node, prefix_list).
add_ip_prefix_list ==
    \E node \in ListNodes, ipl \in IpListArgs :
        /\ rmap_lists.counter <= MaxCounter
        /\ ListCall(WithIpList(rmap_lists, node, ipl), "add_ip_prefix_list")

\* graph.py lines 908-910: del_ip_prefix_list(node, prefix_list).
del_ip_prefix_list ==
    \E node \in ListNodes, arg \in IpListDelArgs :
        ListCall(WithoutIpList(rmap_lists, node, arg), "del_ip_prefix_list")

NextRmap ==
    \/ DeserializeRouteMap
    \/ SerializeRouteMap
    \/ add_bgp_community_list
    \/ del_community_list
    \/ add_ip_prefix_list
    \/ del_ip_prefix_list

SpecRmap == InitRmap /\ [][NextRmap]_vars

---------------------------------------------------------------------------
(* Properties *)

RECURSIVE Collapse(_)
\* A sequence with every run of equal consecutive elements cut to one.
Collapse(s) ==
    IF Len(s) <= 1 THEN s
    ELSE LET r == Collapse(SubSeq(s, 1, Len(s) - 1))
         IN  IF Last(r) = Last(s) THEN r ELSE Append(r, Last(s))

\* The AS numbers along a router path, in path order, runs collapsed.
AsSeqOf(p) == Collapse([i \in 1..Len(p) |-> get_bgp_asnum(p[i]).ret])

\* C1: after extract_ibgp_zones every BGP-enabled router (local or peer) is
\* a node of the zone keyed by its own AS number and of no other zone.
C1_ZonePartition ==
    pc = "zones_done" =>
        \A n \in routers_iter.ret :
            is_bgp_enabled(n) = "True" =>
                /\ get_bgp_asnum(n).ret \in DOMAIN zones
                /\ \A a \in DOMAIN zones :
                      n \in zones[a].nodes <=> a = get_bgp_asnum(n).ret

\* C1 witness: two zones were extracted, one grew by a non-BGP transit
\* router, and a BGP-enabled router is linked to a router of the other AS.
C1_Witness ==
    /\ pc = "zones_done"
    /\ Cardinality(DOMAIN zones) = 2
    /\ \E a \in DOMAIN zones : \E x \in zones[a].nodes : is_bgp_enabled(x) # "True"
    /\ \E l \in links :
          /\ is_router(l[1]) = "True" /\ is_router(l[2]) = "True"
          /\ is_bgp_enabled(l[1]) = "True" /\ is_bgp_enabled(l[2]) = "True"
          /\ get_bgp_asnum(l[1]).ret # get_bgp_asnum(l[2]).ret

\* C2 as claimed: every router path returned by expand_as_path starts at
\* an origin and its AS numbers, runs collapsed, are exactly the input AS
\* sequence.
C2_ExpandMatchesSeq ==
    pc = "expand_done" =>
        \A p \in exp_result :
            /\ p[1] \in exp_origins
            /\ AsSeqOf(p) = exp_path

\* C3 as claimed: no returned router path holds the same router twice.
C3_NoRouterTwice ==
    pc = "expand_done" => \A p \in exp_result : NoRepeat(p)

\* merge_dags has run.
AfterMerge ==
    \/ pc \in {"merged", "facts", "chained", "enum", "done"}
    \/ /\ pc = "error"
       /\ err.where \in {"partial_eval_propagated_info", "find_prev_prop",
                         "compute_dags"}

\* The edges of the per-prefix graphs, each as its pair of end points.
UnionOfEdges(graphs) ==
    UNION {{{e[1], e[2]} : e \in graphs[net].edges} : net \in DOMAIN graphs}

\* C4: after merge_dags the edge set of each merged graph (eBGP view and
\* router view) is the union of the edge sets of the per-prefix graphs of
\* that view; the merged graphs are undirected, so an edge is its pair of
\* end points.
C4_MergedEdges ==
    AfterMerge =>
        /\ ebgp_propagation.edges = UnionOfEdges(ebgp_graphs)
        /\ ibgp_propagation.edges = UnionOfEdges(ibgp_graphs)

\* C4 witness: two prefixes were merged whose router-view graphs each have
\* an edge the other has not.
C4_Witness ==
    /\ AfterMerge
    /\ \E p, q \in DOMAIN ibgp_graphs :
          /\ ibgp_graphs[p].edges \ ibgp_graphs[q].edges # {}
          /\ ibgp_graphs[q].edges \ ibgp_graphs[p].edges # {}

\* Node n has an entry for net in the merged graph m exactly if it is a
\* node of the per-prefix graph of net, and the entry is that node's.
EntryMatches(m, graphs, n, net) ==
    /\ (n \in m.nodes /\ net \in DOMAIN m.nets[n])
          <=> (net \in DOMAIN graphs /\ n \in graphs[net].nodes)
    /\ (net \in DOMAIN graphs /\ n \in graphs[net].nodes) =>
          /\ m.nets[n][net].paths = graphs[net].attr[n].paths
          /\ m.nets[n][net].block = graphs[net].attr[n].block
          /\ m.nets[n][net].order = graphs[net].attr[n].order

\* C5: after merge_dags a node has an entry for a prefix in the merged
\* graph if and only if it is a node of that prefix's graph, and the
\* entry's paths, block and order are those of the node in that graph.
C5_MergedEntries ==
    AfterMerge =>
        \A net \in Prefixes :
            /\ \A a \in ASNums : EntryMatches(ebgp_propagation, ebgp_graphs, a, net)
            /\ \A n \in DRouters : EntryMatches(ibgp_propagation, ibgp_graphs, n, net)

\* C5 witness: a router of the merged router view has entries for two
\* prefixes, and the two entries differ.
C5_Witness ==
    /\ AfterMerge
    /\ \E n \in ibgp_propagation.nodes :
          /\ DOMAIN ibgp_propagation.nets[n] = Prefixes
          /\ ibgp_propagation.nets[n]["p1"] # ibgp_propagation.nets[n]["p2"]
          /\ ibgp_propagation.nets[n]["p1"].paths # {}

\* C6 as claimed: the first loop of partial_eval_propagated_info only
\* completes if, for every node, prefix and path in paths or block of the
\* node under the prefix, the path's first router advertises the prefix.
C6_AbortsWithoutAdvert ==
    pc \in {"facts", "chained", "enum", "done"} =>
        \A n \in ibgp_propagation.nodes :
            \A net \in DOMAIN ibgp_propagation.nets[n] :
                \A path \in ibgp_propagation.nets[n][net].paths
                               \cup ibgp_propagation.nets[n][net].block :
                    HasAnnouncement(path[1], net)

\* The AS numbers of the BGP-enabled routers of a path, runs collapsed,
\* the most recent AS first.
RecentFirst(path) ==
    Reverse(Collapse([i \in 1..Len(SelectSeq(path, LAMBDA n : is_bgp_enabled(n) = "True")) |->
                         get_bgp_asnum(SelectSeq(path, LAMBDA n : is_bgp_enabled(n) = "True")[i]).ret]))

\* Every fact stored under a key of info, ranked or blocked.
StoredFacts(k) ==
    info[k].paths_info \cup info[k].block_info
        \cup UNION {info[k].order_info[i] : i \in 1..Len(info[k].order_info)}

\* C7 as claimed: every fact stored at a node under a prefix carries that
\* prefix, and its as_path is the AS numbers of the path's BGP-enabled
\* routers, runs collapsed, most recent first, followed by the AS path of
\* the origin router's advertisement of that prefix.
C7_FactOfItsPrefix ==
    \A k \in DOMAIN info :
        \A f \in StoredFacts(k) :
            /\ f.ann_name = k[2]
            /\ \E i \in MatchingAnns(f.path[1], k[2]) :
                  f.as_path = RecentFirst(f.path)
                                 \o get_bgp_advertise(f.path[1]).ret[i].as_path

\* The fact with the given path stored at a node under a prefix.
FactOf(k) == CHOOSE f \in FactsAt(k[1], k[2]) : f.path = k[3]

\* C8: a prev that is set has the path of its fact without the last
\* router, and is one of the facts stored at the fact's peer under the
\* same prefix.
C8_PrevIsPeerFact ==
    \A k \in DOMAIN prev :
        prev[k] # NoFact =>
            /\ prev[k].path = Front(k[3])
            /\ prev[k] \in FactsAt(FactOf(k).peer, k[2])

\* C8 witness: the last loop completed; it set the prev of a fact with a
\* path of three routers and left the prev of another fact unset.
C8_Witness ==
    /\ pc = "chained"
    /\ \E k \in DOMAIN prev : prev[k] # NoFact /\ Len(k[3]) = 3
    /\ \E k \in DOMAIN prev : prev[k] = NoFact

\* C9 as claimed: the causal chaining never fails.
C9_ChainingNeverFails ==
    ~(pc = "error" /\ err.where = "find_prev_prop")

\* C10 as claimed: the value compute_dags returns holds the violations
\* check_order found for every prefix processed in the run.
C10_AllViolationsReturned ==
    pc = "done" =>
        returned.val = UNION {order_checks[net] : net \in Range(net_done)}

RECURSIVE Groups(_)
\* The groups of requirement paths a list of requirements stands for: a
\* PathReq is one group of one path, a PathOrderReq one group per member
\* in rank order, a KConnectedPathsReq one group of all its members.
Groups(rs) ==
    IF rs = << >> THEN << >>
    ELSE (IF Head(rs).type = PathReq THEN <<{Head(rs).path}>>
          ELSE IF Head(rs).type = PathOrderReq
               THEN [i \in 1..Len(Head(rs).paths) |-> {Head(rs).paths[i].path}]
               ELSE <<{Head(rs).paths[i].path : i \in 1..Len(Head(rs).paths)}>>)
         \o Groups(Tail(rs))

\* The same sequence, read in either direction.
SamePath(p, q) == p = q \/ p = Reverse(q)

\* The extracted facts es are those of the requirement paths qs: the
\* origin is the last router of the requirement path, the path is the
\* requirement's routers (router level) or their AS numbers (AS level).
FactsOfGroup(es, qs, as_level) ==
    /\ \A q \in qs : \E e \in es :
          /\ e[1] = Last(q)
          /\ SamePath(e[2], IF as_level THEN RecentFirst(q) ELSE q)
    /\ \A e \in es : \E q \in qs :
          /\ e[1] = Last(q)
          /\ SamePath(e[2], IF as_level THEN RecentFirst(q) ELSE q)

\* C11: extract_reqs returns two lists of the same length whose i-th sets
\* hold the facts of the same requirement paths: one singleton per PathReq,
\* one singleton per member of a PathOrderReq in rank order, one set of all
\* members per KConnectedPathsReq.
C11_ExtractedGroups ==
    pc \in {"reqs_done", "facts_held"} =>
        /\ Len(as_paths) = Len(router_paths)
        /\ Len(router_paths) = Len(Groups(xreqs))
        /\ \A i \in 1..Len(Groups(xreqs)) :
              /\ FactsOfGroup(router_paths[i], Groups(xreqs)[i], FALSE)
              /\ FactsOfGroup(as_paths[i], Groups(xreqs)[i], TRUE)
              /\ Cardinality(router_paths[i]) = Cardinality(Groups(xreqs)[i])

\* C11 witness: a KConnectedPathsReq of two paths and another requirement
\* were extracted.
C11_Witness ==
    /\ pc = "reqs_done"
    /\ Len(xreqs) = 2
    /\ \E i \in 1..2 :
          /\ xreqs[i].type = KConnectedPathsReq
          /\ Cardinality({xreqs[i].paths[j].path : j \in 1..Len(xreqs[i].paths)}) = 2

\* C12 as claimed: a list of requirements that holds an ECMPPathsReq of two
\* paths is accepted; no error is raised for the requirement type.
C12_EcmpAccepted ==
    (\E i \in 1..Len(xreqs) :
        xreqs[i].type = ECMPPathsReq /\ Len(xreqs[i].paths) = 2)
        => ~(pc = "error" /\ err.kind = "ValueError")

\* C13 as claimed: the fact of a PathReq is held at the last router of the
\* requirement path, with the routers in the requirement's order and the
\* AS numbers from the holder's AS back to the first router's.
C13_FactInRequirementOrder ==
    pc = "facts_held" =>
        \A i \in 1..Len(xreqs) :
            xreqs[i].type = PathReq =>
                /\ Last(xreqs[i].path) \in DOMAIN held
                /\ \E f \in held[Last(xreqs[i].path)] :
                      /\ f.path = xreqs[i].path
                      /\ SubSeq(f.as_path, 1, Len(RecentFirst(f.path)))
                            = RecentFirst(xreqs[i].path)

\* No BGP neighbour of the last router of path p has another AS, is not
\* yet on p and lies in the zone of the next AS of the sequence.
Stuck(p) ==
    ~\E nb \in get_bgp_neighbors(Last(p)).ret :
        /\ get_bgp_asnum(nb).ret # get_bgp_asnum(Last(p)).ret
        /\ nb \notin Range(p)
        /\ nb \in zones[exp_path[exp_index + 1]].nodes

\* Origin o has a neighbour that extends <<o>> at the first position.
Stuck_At1(o) ==
    ~\E nb \in get_bgp_neighbors(o).ret :
        /\ get_bgp_asnum(nb).ret # get_bgp_asnum(o).ret
        /\ nb \in zones[exp_path[2]].nodes

\* Path q is path p, or p followed by a hop to a router of another AS.
Continues(q, p) ==
    /\ Len(q) >= Len(p) /\ SubSeq(q, 1, Len(p)) = p
    /\ Len(q) > Len(p) => get_bgp_asnum(q[Len(p) + 1]).ret # get_bgp_asnum(Last(p)).ret

\* The last node of path p, its BGP neighbors and their BGP neighbors are
\* routers of the graph.
AmongRouters(p) ==
    /\ vtype[Last(p)] \in {ROUTER, PEER}
    /\ \A nb \in nbrs[Last(p)] :
          /\ vtype[nb] \in {ROUTER, PEER}
          /\ \A nn \in nbrs[nb] : vtype[nn] \in {ROUTER, PEER}

\* The last node of path p and its BGP neighbors are routers of the graph
\* (lines 192-195 raise nothing for p).
ReadsRouters(p) ==
    /\ Last(p) \in DOMAIN vtype
    /\ vtype[Last(p)] \in {ROUTER, PEER}
    /\ \A nb \in nbrs[Last(p)] : vtype[nb] \in {ROUTER, PEER}

\* C14: a frontier path that cannot be extended at a position before the
\* last is dropped without an error: the call raises only for an AS
\* without zone, at a frontier path whose last node or one of its BGP
\* neighbors is no router (lines 192-195), or behind a neighbor of a path
\* that can be extended (line 206), so a stuck path that reads routers
\* raises nothing; neither a stuck path nor a continuation of it is in the
\* next frontier; when every frontier path is dropped the result is empty,
\* and expand_ebgp_graph then raises nothing and adds no path to any
\* router.
C14_StuckPathDropped ==
    [][/\ pc' = "error" =>
             \/ pc = "expand_call" /\ NoZoneAS \in Range(exp_path)
             \/ /\ pc = "expand_loop"
                /\ \E p \in new_paths :
                      \/ ~ReadsRouters(p)
                      \/ /\ exp_index < Len(exp_path)
                         /\ ~Stuck(p)
                         /\ ~AmongRouters(p)
       /\ (pc = "expand_loop" /\ pc' # "error" /\ exp_index < Len(exp_path)) =>
             /\ \A p \in new_paths :
                   Stuck(p) => \A q \in new_paths' : ~Continues(q, p)
             /\ (\A p \in new_paths : Stuck(p)) => new_paths' = {}
       /\ (pc' = "expand_done" /\ new_paths = {}) => exp_result' = {}
       /\ (pc = "expand_done" /\ exp_result = {}) =>
             /\ pc' = "graph_expanded"
             /\ \A n \in ibgp_graphs'["p1"].nodes :
                   /\ ibgp_graphs'["p1"].attr[n].block = {}
                   /\ ibgp_graphs'["p1"].attr[n].paths = {}]_vars

\* C14 witness: an AS sequence of three ASes was expanded, the frontier
\* was not empty after the first position, the result is empty, and
\* expand_ebgp_graph has run.
C14_Witness ==
    /\ pc = "graph_expanded"
    /\ Len(exp_path) = 3
    /\ exp_result = {}
    /\ \E o \in exp_origins : ~Stuck_At1(o)

\* The orders in which the elements of a finite set can be visited.
VisitOrders(S) ==
    {o \in [1..Cardinality(S) -> S] : Range(o) = S}

\* One step of the closure rule: the router-typed out-neighbours of the
\* members that have AS a or are not BGP-enabled.
ClosureStep(a, S) ==
    S \cup {m \in DOMAIN vtype :
               /\ \E n \in S : <<n, m>> \in links
               /\ vtype[m] \in {ROUTER, PEER}
               /\ (m \notin DOMAIN asnum \/ asnum[m] = a \/ asnum[m] = NONE)}

RECURSIVE Closure(_, _)
Closure(a, S) ==
    IF ClosureStep(a, S) = S THEN S ELSE Closure(a, ClosureStep(a, S))

\* The routers (local or peer) whose AS number is a.
RoutersOfAS(a) ==
    {n \in DOMAIN vtype : vtype[n] \in {ROUTER, PEER} /\ n \in DOMAIN asnum /\ asnum[n] = a}

\* C15: the zone of every AS number a is exactly the closure of the routers
\* of AS a under the rule "add a router-typed out-neighbour of a member when
\* it has AS a or is not BGP-enabled"; it holds no Network node and no node
\* absent from the topology; and every pass gives the same graph for every
\* order in which its (node, neighbor) pairs are visited.
C15_ZoneIsClosure ==
    /\ pc = "zones_done" =>
          \A a \in DOMAIN zones :
              /\ zones[a].nodes = Closure(a, RoutersOfAS(a))
              /\ zones[a].nodes \subseteq DOMAIN vtype
              /\ \A n \in zones[a].nodes : vtype[n] # NETWORK
    /\ (pc = "zones" /\ zcur # NONE) =>
          \A ord \in VisitOrders(Visited(ibgp_nodes)) :
              /\ VisitInOrder(ibgp_graph, zcur, ord)
                    = ZonePass(ibgp_graph, zcur, ibgp_nodes)
              /\ ZoneLoop(VisitInOrder(ibgp_graph, zcur, ord), zcur,
                          VisitInOrder(ibgp_graph, zcur, ord).nodes,
                          GraphSize(VisitInOrder(ibgp_graph, zcur, ord))).nodes
                    = Closure(zcur, RoutersOfAS(zcur))

\* C15 witness: a zone holds a non-BGP router that no router of the AS is
\* linked to (it was reached through another transit router), so the zone
\* grew in two passes to three routers.
C15_Witness ==
    /\ pc = "zones_done"
    /\ \E a \in DOMAIN zones :
          /\ \E x \in zones[a].nodes :
                /\ is_bgp_enabled(x) # "True"
                /\ \A n \in RoutersOfAS(a) : <<n, x>> \notin links
          /\ Cardinality(zones[a].nodes) = 3

\* C16: extract_ibgp_zones terminates: a pass only adds nodes and edges to
\* the zone graph, the graph stays within the router set (so a zone needs
\* at most one pass per router and a last one), the loop is left at the
\* first pass that adds nothing and at no other, and the call ends: it
\* returns, or it has raised the KeyError of line 92 before the first zone.
C16_ZonesTerminate ==
    /\ [][(pc = "zones" /\ zcur # NONE) =>
             /\ ibgp_graph.nodes \subseteq ibgp_graph'.nodes
             /\ ibgp_graph.edges \subseteq ibgp_graph'.edges
             /\ ibgp_graph'.nodes \subseteq routers_iter.ret
             /\ \A e \in ibgp_graph'.edges : e \subseteq routers_iter.ret
             /\ (zcur' = NONE) <=> (ibgp_graph' = ibgp_graph)
             /\ passes' <= Cardinality(routers_iter.ret) + 1]_vars
    /\ <>(pc = "zones_done" \/ (pc = "error" /\ zones = << >>))

\* C16 witness: the call returned after a zone took four passes: two that
\* added a router each, one that added an edge only, one that added nothing.
C16_Witness ==
    /\ pc = "zones_done"
    /\ passes = 4
    /\ \E a \in DOMAIN zones :
          Cardinality(zones[a].nodes) = 3 /\ Cardinality(zones[a].edges) = 3

\* The stages of one run, in the order of the code.
StageOf(p) ==
    CASE p = "constructed" -> 1
      [] p = "dags_loop"   -> 2
      [] p = "merged"      -> 3
      [] p = "facts"       -> 4
      [] p = "chained"     -> 5
      [] p = "enum"        -> 6
      [] p = "done"        -> 7
      [] p = "error"       -> 8

\* The prefixes that have a requirement.
ReqNets == {reqs[i].dst_net : i \in 1..Len(reqs)}

\* C17: the stages of a run come in the fixed order. The zones are those
\* of the constructor throughout; a step adds a requirement before the run
\* begins, stays in the loop over the prefixes, moves to the next stage, or ends the run with an error; a
\* prefix's two graphs are stored together, before the merge; the merged
\* graphs are set only when every prefix with a requirement has its graphs
\* stored; facts are built only after the merge, prev links only after the
\* facts; the enumeration is registered only after partial evaluation has
\* completed without an error.
C17_StagesInOrder ==
    /\ zones = extract_ibgp_zones.ret
    /\ [][/\ zones' = zones
          /\ \/ pc' = pc /\ pc \in {"constructed", "dags_loop"}
             \/ StageOf(pc') = StageOf(pc) + 1
             \/ pc' = "error" /\ pc # "done"
          /\ (ibgp_graphs' # ibgp_graphs \/ ebgp_graphs' # ebgp_graphs) =>
                /\ DOMAIN ibgp_graphs' = DOMAIN ebgp_graphs'
                /\ ibgp_propagation = NoMerged /\ ebgp_propagation = NoMerged
                /\ info = << >> /\ prev = << >> /\ aspath_enum = {}
          /\ (pc' = "merged" \/ ibgp_propagation' # ibgp_propagation
                             \/ ebgp_propagation' # ebgp_propagation) =>
                /\ ReqNets = DOMAIN ibgp_graphs /\ ReqNets = DOMAIN ebgp_graphs
                /\ info = << >> /\ prev = << >> /\ aspath_enum = {}
          /\ (info' # info \/ cache' # cache) =>
                /\ pc = "merged"
                /\ ibgp_propagation = MergeAll(NoMerged, net_done, ibgp_graphs)
                /\ prev = << >> /\ aspath_enum = {}
          /\ prev' # prev => pc = "facts" /\ aspath_enum = {}
          /\ (pc' = "enum" \/ aspath_enum' # aspath_enum) =>
                /\ pc = "chained" /\ err = NoErr
                /\ \A n \in ibgp_propagation.nodes :
                      \A net \in DOMAIN ibgp_propagation.nets[n] :
                          <<n, net>> \in DOMAIN info]_vars

\* C17 witness: a run over two prefixes went through every stage: both
\* prefixes' graphs are stored, the merged graph holds a node, a fact has a
\* prev, and the enumeration is registered.
C17_Witness ==
    /\ pc = "done"
    /\ Len(net_done) = 2
    /\ ibgp_propagation.nodes # {}
    /\ \E k \in DOMAIN prev : prev[k] # NoFact
    /\ aspath_enum # {}

\* C18: when partial evaluation aborts, nothing computed earlier in the run
\* is taken back: the zones, the graphs of every prefix and the merged
\* graphs (nodes, edges and the entry of every prefix) stay as the earlier
\* stages left them, the facts attached before the abort stay attached,
\* and the enumeration is not registered, then or later.
C18_NoRollback ==
    /\ [][(pc \in {"merged", "facts"} /\ pc' = "error") =>
             /\ zones' = zones /\ zones = extract_ibgp_zones.ret
             /\ ibgp_graphs' = ibgp_graphs /\ ebgp_graphs' = ebgp_graphs
             /\ DOMAIN ibgp_graphs = ReqNets
             /\ ibgp_propagation' = ibgp_propagation
             /\ ebgp_propagation' = ebgp_propagation
             /\ ibgp_propagation = MergeAll(NoMerged, net_done, ibgp_graphs)
             /\ ebgp_propagation = MergeAll(NoMerged, net_done, ebgp_graphs)
             /\ \A k \in DOMAIN info : k \in DOMAIN info' /\ info'[k] = info[k]
             /\ aspath_enum' = {}]_vars
    /\ [](pc = "error" => aspath_enum = {})

\* C18 witness: the assertion on the origin's advertisement failed after
\* the facts of another node had been attached; two prefixes' graphs and a
\* merged graph with an edge are stored.
C18_Witness ==
    /\ pc = "error"
    /\ err.kind = "AssertionError"
    /\ err.where = "partial_eval_propagated_info"
    /\ err.node = Origin
    /\ ~HasAnnouncement(Origin, err.net)
    /\ info # << >>
    /\ Len(net_done) = 2
    /\ ibgp_propagation.edges # {}

\* The graph as a call may change it: nodes with types, edges with types.
GraphState == <<vtype, links, etype>>

TypedEdgeCalls == {"add_router_edge", "add_peer_edge", "add_network_edge"}

\* C19: a typed edge constructor succeeds only for end points of the
\* allowed types (add_router_edge: two local routers; add_peer_edge: a
\* peer and a router; add_network_edge: a router and a network), and a
\* failed call leaves the nodes and edges of the graph as they were.
C19_TypedEdgeEndpoints ==
    [][/\ (gcall'.op = "add_router_edge" /\ gcall'.res = "ok") =>
             is_local_router(gcall'.u) = "True" /\ is_local_router(gcall'.v) = "True"
       /\ (gcall'.op = "add_peer_edge" /\ gcall'.res = "ok") =>
             \/ is_peer(gcall'.u) = "True" /\ is_router(gcall'.v) = "True"
             \/ is_peer(gcall'.v) = "True" /\ is_router(gcall'.u) = "True"
       /\ (gcall'.op = "add_network_edge" /\ gcall'.res = "ok") =>
             \/ is_router(gcall'.u) = "True" /\ is_network(gcall'.v) = "True"
             \/ is_router(gcall'.v) = "True" /\ is_network(gcall'.u) = "True"
       /\ (gcall'.op \in TypedEdgeCalls /\ gcall'.res # "ok") =>
             GraphState' = GraphState]_vars

\* C20: add_node without a vertex type and add_edge without an edge type
\* raise ValueError and leave the nodes, the edges and their types as they
\* were.
C20_UntypedRejected ==
    [][(gcall'.op \in {"add_node", "add_edge"} /\ ~gcall'.typed) =>
          /\ gcall'.res = "ValueError"
          /\ GraphState' = GraphState]_vars

\* C20 witness: add_edge without an edge type was rejected between two
\* routers of a graph that holds a typed edge.
C20_Witness ==
    /\ gcall.op = "add_edge" /\ ~gcall.typed /\ gcall.res = "ValueError"
    /\ is_local_router(gcall.u) = "True" /\ is_local_router(gcall.v) = "True"
    /\ <<gcall.u, gcall.v>> \notin links
    /\ links # {}

\* The vertex types a node of the topology may have.
VertexTypes == {ROUTER, PEER, NETWORK}

\* C21: a call of add_router, add_peer or add_network (add_node with a
\* vertex type) or of a typed edge constructor leaves every node it adds
\* with a type in {Router, Peer, Network} and leaves the type of every
\* node that existed before the call as it was.
C21_TypeSetOnce ==
    [][(\/ gcall'.op = "add_node" /\ gcall'.typed
        \/ gcall'.op \in TypedEdgeCalls) =>
          /\ \A n \in DOMAIN vtype : vtype'[n] = vtype[n]
          /\ \A n \in DOMAIN vtype' \ DOMAIN vtype : vtype'[n] \in VertexTypes]_vars

\* The BGP neighbours a router lists in the neighbour maps f.
NbrsOf(f, n) == IF n \in DOMAIN f THEN f[n] ELSE {}

\* C22: add_bgp_neighbor(a, b) fails when a already lists b or b already
\* lists a, and that failed call leaves the neighbours of every router as
\* they were; a successful call records the session in both maps; in
\* every state b is a neighbour of a exactly when a is a neighbour of b.
C22_SessionsSymmetric ==
    /\ [][gcall'.op = "add_bgp_neighbor" =>
             /\ (gcall'.v \in NbrsOf(nbrs, gcall'.u)
                   \/ gcall'.u \in NbrsOf(nbrs, gcall'.v)) =>
                   /\ gcall'.res # "ok"
                   /\ \A n \in GNodes : NbrsOf(nbrs', n) = NbrsOf(nbrs, n)
             /\ gcall'.res = "ok" =>
                   /\ gcall'.v \in NbrsOf(nbrs', gcall'.u)
                   /\ gcall'.u \in NbrsOf(nbrs', gcall'.v)]_vars
    /\ [](\A a, b \in GNodes : b \in NbrsOf(nbrs, a) <=> a \in NbrsOf(nbrs, b))

\* C22 witness: a session between two different routers is recorded in both
\* maps and the call that asked for it again, from the other side, failed.
C22_Witness ==
    /\ gcall.op = "add_bgp_neighbor"
    /\ gcall.res = AlreadyConfigured
    /\ gcall.u # gcall.v
    /\ gcall.u \in NbrsOf(nbrs, gcall.v) /\ gcall.v \in NbrsOf(nbrs, gcall.u)

\* A match of the persisted format: of one of the three types, its list
\* with a permit or deny access.
WrittenMatch(m) ==
    \/ m.match_type = "MatchNextHop"
    \/ /\ m.match_type = "MatchIpPrefixListList"
       /\ m.prefix_list.access \in {"permit", "deny"}
    \/ /\ m.match_type = "MatchCommunitiesList"
       /\ m.communities_list.access \in {"permit", "deny"}

\* An action of the persisted format: of one of the two kinds.
WrittenAction(a) == a.action \in {"ActionSetLocalPref", "ActionSetCommunity"}

\* The values of a serialized match and of a serialized action.
MatchValues(m) ==
    IF m.match_type = "MatchNextHop" THEN {m.nexthop}
    ELSE IF m.match_type = "MatchIpPrefixListList"
    THEN Range(m.prefix_list.networks)
    ELSE Range(m.communities_list.communities)

ActionValues(a) ==
    IF a.action = "ActionSetLocalPref" THEN {a.value} ELSE Range(a.communities)

\* A concrete serialized route map: every line has a permit or deny
\* access, matches and actions of the persisted format, and no value of a
\* match or an action is the placeholder.
ConcreteLines(rmap) ==
    \A i \in 1..Len(rmap) :
        /\ rmap[i].access \in {"permit", "deny"}
        /\ \A m \in Range(rmap[i].matches.items) :
              WrittenMatch(m) /\ \A x \in MatchValues(m) : ~is_empty(x)
        /\ \A a \in Range(rmap[i].actions.items) :
              WrittenAction(a) /\ \A x \in ActionValues(a) : ~is_empty(x)

\* The two conversions gave back the lines of the input: as many lines in
\* the same order, each with its line number, access, ordered matches and
\* ordered actions; a line without matches, or without actions, is given
\* back with null.
SameLines(out, in) ==
    /\ Len(out) = Len(in)
    /\ \A i \in 1..Len(in) :
          /\ out[i].lineno = in[i].lineno
          /\ out[i].access = in[i].access
          /\ out[i].matches = (IF in[i].matches.items = << >> THEN None
                               ELSE in[i].matches)
          /\ out[i].actions = (IF in[i].actions.items = << >> THEN None
                               ELSE in[i].actions)

\* A conversion of the route map raised.
ConversionRaised ==
    pc = "rmap_error"
    /\ err.where \in {"deserialize_route_map", "serialize_route_map"}

\* The statement of C23 for every concrete serialized route map: the round
\* trip raises nothing and gives back the same lines.
C23_AnyConcrete ==
    (rmap_dir \in DeserializeFirst /\ ConcreteLines(rmap_in)) =>
        /\ ~ConversionRaised
        /\ pc = "rmap_end" => SameLines(rmap_out, rmap_in)

\* The matches and the actions of a serialized route map.
MatchesOf(rmap) == UNION {Range(rmap[i].matches.items) : i \in 1..Len(rmap)}

ActionsOf(rmap) == UNION {Range(rmap[i].actions.items) : i \in 1..Len(rmap)}

\* Every prefix list of the route map has a name and every community list
\* an id.
ListsIdentified(rmap) ==
    \A m \in MatchesOf(rmap) :
        /\ m.match_type = "MatchIpPrefixListList" => m.prefix_list.name # NONAME
        /\ m.match_type = "MatchCommunitiesList" =>
              m.communities_list.list_id # NONE

\* Every prefix list of the route map has a network, every community list
\* and every set-community action a community.
ListsFilled(rmap) ==
    /\ \A m \in MatchesOf(rmap) :
          /\ m.match_type = "MatchIpPrefixListList" =>
                m.prefix_list.networks # << >>
          /\ m.match_type = "MatchCommunitiesList" =>
                m.communities_list.communities # << >>
    /\ \A a \in ActionsOf(rmap) :
          a.action = "ActionSetCommunity" => a.communities # << >>

\* prefix_map gives back the text t after inv_prefix_map.
Restored(t, maps) ==
    LET prefix == IF t \in DOMAIN maps.inv_prefix_map
                  THEN maps.inv_prefix_map[t] ELSE t
    IN  t = (IF prefix \in DOMAIN maps.prefix_map
             THEN maps.prefix_map[prefix] ELSE prefix)

\* Every next hop and every network of the route map is such a text.
TextsRestored(rmap, maps) ==
    \A m \in MatchesOf(rmap) :
        /\ m.match_type = "MatchNextHop" => Restored(m.nexthop, maps)
        /\ m.match_type = "MatchIpPrefixListList" =>
              \A t \in Range(m.prefix_list.networks) : Restored(t, maps)

\* No two community lists of the route map have the same id and other
\* contents.
NoClashWithin(rmap) ==
    \A m1 \in MatchesOf(rmap), m2 \in MatchesOf(rmap) :
        (/\ m1.match_type = "MatchCommunitiesList"
         /\ m2.match_type = "MatchCommunitiesList"
         /\ m1.communities_list.list_id = m2.communities_list.list_id) =>
            m1.communities_list = m2.communities_list

\* The community list cl holds what the serialized list c says.
SameCommList(c, cl) ==
    /\ cl.access = (IF c.access = "permit" THEN AccessPermit ELSE AccessDeny)
    /\ Len(cl.communities) = Len(c.communities)
    /\ \A k \in 1..Len(c.communities) :
          cl.communities[k] = Community(c.communities[k])

\* No community list of the route map has the id of a list of other
\* contents registered on the router.
NoIdClash(rmap, lists) ==
    \A m \in MatchesOf(rmap) :
        (/\ m.match_type = "MatchCommunitiesList"
         /\ m.communities_list.list_id \in DOMAIN lists.comm) =>
            SameCommList(m.communities_list,
                         lists.comm[m.communities_list.list_id])

\* The route maps the round trip is stated for.
RoundTripInput(rmap, maps) ==
    /\ ConcreteLines(rmap)
    /\ ListsIdentified(rmap) /\ ListsFilled(rmap)
    /\ NoClashWithin(rmap)
    /\ TextsRestored(rmap, maps)

\* C23: take a concrete serialized route map in which every prefix list
\* has a name and a network, every community list an id and a community,
\* every set-community action a community, no community list the id of a
\* list of other contents (held by the router when deserialize_route_map is
\* called, or under another match of the route map), and every next hop and
\* network is a text prefix_map gives back after inv_prefix_map. Then
\* deserialize_route_map raises nothing, and serialize_route_map of what it
\* returned raises nothing and gives back the same list of lines: the same
\* number of lines in the same order, each with its line number, access,
\* ordered matches and ordered actions, an empty list of matches or actions
\* written as null.
C23_RoundTrip ==
    [][(rmap_dir \in DeserializeFirst /\ RoundTripInput(rmap_in, rmap_maps)) =>
          /\ (pc = "rmap_start" /\ NoIdClash(rmap_in, rmap_lists)) =>
                ~(pc' = "rmap_error" /\ err'.where = "deserialize_route_map")
          /\ pc = "rmap_mid" =>
                pc' = "rmap_end" /\ SameLines(rmap_out', rmap_in)]_vars

\* C23 witness: a route map of two lines with descending line numbers went
\* through both conversions under a prefix map and its inverse; a line has
\* a match under a deny prefix list, whose networks were turned into
\* prefixes, followed by two actions, and the other line has the empty
\* list for its matches and came back with null.
C23_Witness ==
    /\ rmap_dir = "deserialize_first" /\ pc = "rmap_end"
    /\ RoundTripInput(rmap_in, rmap_maps)
    /\ Len(rmap_in) = 2 /\ rmap_in[1].lineno > rmap_in[2].lineno
    /\ \E i \in 1..2 :
          /\ Len(rmap_in[i].matches.items) = 1
          /\ rmap_in[i].matches.items[1].match_type = "MatchIpPrefixListList"
          /\ rmap_in[i].matches.items[1].prefix_list.access = "deny"
          /\ rmap_mid.lines[i].matches[1].iplist.networks[1] = "10.0.0.0/24"
          /\ Len(rmap_in[i].actions.items) = 2
          /\ rmap_in[i].actions.items[1] # rmap_in[i].actions.items[2]
          /\ rmap_out[i].actions = rmap_in[i].actions
    /\ \E i \in 1..2 :
          /\ rmap_in[i].matches = List(<< >>)
          /\ rmap_out[i].matches = None

\* The list s without its element at position i.
RemoveAt(s, i) == SubSeq(s, 1, i - 1) \o SubSeq(s, i + 1, Len(s))

\* A match or an action object all of whose values are placeholders.
PlaceholderMatch(match) ==
    IF match.cls = "MatchNextHop" THEN is_empty(match.nexthop)
    ELSE IF match.cls = "MatchIpPrefixListList"
    THEN \A k \in 1..Len(match.iplist.networks) : is_empty(match.iplist.networks[k])
    ELSE IF match.cls = "MatchCommunitiesList"
    THEN \A k \in 1..Len(match.commlist.communities) :
            is_empty(match.commlist.communities[k])
    ELSE FALSE

PlaceholderAction(action) ==
    IF action.cls = "ActionSetLocalPref" THEN is_empty(action.value)
    ELSE IF action.cls = "ActionSetCommunity"
    THEN \A k \in 1..Len(action.communities) : is_empty(action.communities[k])
    ELSE FALSE

\* C24: a placeholder stays distinguishable from an absent field. The
\* serialized form of a route map differs from that of the same route map
\* without its placeholder line, without the placeholder match of a line,
\* or without the placeholder action of a line; and a serialized line whose
\* access is the placeholder is deserialized to a line whose access is the
\* placeholder.
C24_PlaceholderDistinct ==
    /\ (rmap_dir = "serialize_first" /\ pc \in {"rmap_mid", "rmap_end"}) =>
          \A i \in 1..Len(rmap_in.lines) :
              /\ is_empty(rmap_in.lines[i].access) =>
                    rmap_mid # serialize_route_map(
                                  [rmap_in EXCEPT !.lines = RemoveAt(@, i)],
                                  rmap_maps.prefix_map).ret
              /\ ~is_empty(rmap_in.lines[i].access) =>
                    /\ \A j \in 1..Len(rmap_in.lines[i].matches) :
                          PlaceholderMatch(rmap_in.lines[i].matches[j]) =>
                              rmap_mid # serialize_route_map(
                                  [rmap_in EXCEPT !.lines[i].matches = RemoveAt(@, j)],
                                  rmap_maps.prefix_map).ret
                    /\ \A j \in 1..Len(rmap_in.lines[i].actions) :
                          PlaceholderAction(rmap_in.lines[i].actions[j]) =>
                              rmap_mid # serialize_route_map(
                                  [rmap_in EXCEPT !.lines[i].actions = RemoveAt(@, j)],
                                  rmap_maps.prefix_map).ret
    /\ (rmap_dir \in DeserializeFirst /\ pc \in {"rmap_mid", "rmap_end"}) =>
          \A i \in 1..Len(rmap_in) :
              is_empty(rmap_in[i].access) => is_empty(rmap_mid.lines[i].access)

\* No rank of the order list is the empty set.
NoEmptyRank(order) == \A r \in 1..Len(order) : order[r] # {}

\* C25: after compute_dags no node of a per-prefix graph (AS-level or
\* router-level) and no entry of the merged graphs has an empty set in its
\* order list, and the order list of a node is the list compute_propagation
\* gave with the empty ranks left out.
C25_NoEmptyRanks ==
    pc = "done" =>
        /\ \A net \in DOMAIN ibgp_graphs : \A n \in ibgp_graphs[net].nodes :
              /\ NoEmptyRank(ibgp_graphs[net].attr[n].order)
              /\ ibgp_graphs[net].attr[n].order =
                    SelectSeq(PropagationGraph(prop_out[net].ibgp).attr[n].order,
                              LAMBDA x : x # {})
        /\ \A net \in DOMAIN ebgp_graphs : \A n \in ebgp_graphs[net].nodes :
              /\ NoEmptyRank(ebgp_graphs[net].attr[n].order)
              /\ ebgp_graphs[net].attr[n].order =
                    SelectSeq(PropagationGraph(prop_out[net].ebgp).attr[n].order,
                              LAMBDA x : x # {})
        /\ \A n \in ibgp_propagation.nodes :
              \A net \in DOMAIN ibgp_propagation.nets[n] :
                  NoEmptyRank(ibgp_propagation.nets[n][net].order)
        /\ \A n \in ebgp_propagation.nodes :
              \A net \in DOMAIN ebgp_propagation.nets[n] :
                  NoEmptyRank(ebgp_propagation.nets[n][net].order)

\* The positions of a path where two consecutive BGP-enabled routers have
\* different AS numbers.
Crossings(path) ==
    {i \in 1..(Len(path) - 1) :
        /\ is_bgp_enabled(path[i]) = "True" /\ is_bgp_enabled(path[i + 1]) = "True"
        /\ get_bgp_asnum(path[i]).ret # get_bgp_asnum(path[i + 1]).ret}

Max(S) == CHOOSE x \in S : \A y \in S : x >= y

\* Every fact stored in the merged graph.
AllFacts == UNION {FactsAt(k[1], k[2]) : k \in DOMAIN info}

\* C26: (external_peer, egress) of a fact is the last pair of consecutive
\* BGP-enabled routers of its path with different AS numbers; without such
\* a pair both are unset; for a single-router path peer is unset too.
C26_LastCrossing ==
    \A f \in AllFacts :
        /\ Crossings(f.path) # {} =>
              /\ f.external_peer = f.path[Max(Crossings(f.path))]
              /\ f.egress = f.path[Max(Crossings(f.path)) + 1]
        /\ Crossings(f.path) = {} =>
              /\ f.external_peer = NoRouter
              /\ f.egress = NoRouter
        /\ Len(f.path) = 1 =>
              /\ f.external_peer = NoRouter
              /\ f.egress = NoRouter
              /\ f.peer = NoRouter

\* The facts are evaluated: one with two crossings, one whose last hop stays
\* in the AS it crossed into, and a single-router one.
C26_Witness ==
    /\ pc = "facts"
    /\ \E f \in AllFacts : Cardinality(Crossings(f.path)) = 2
    /\ \E f \in AllFacts :
          /\ Crossings(f.path) # {}
          /\ Max(Crossings(f.path)) + 1 < Len(f.path)
    /\ \E f \in AllFacts : Len(f.path) = 1

\* The fact (node, prefix, path) has a prev that is a fact.
HasPrev(k) == k \in DOMAIN prev /\ prev[k] # NoFact

\* The fact prev points to: it is stored at the peer under the same prefix.
PrevKey(k) == <<FactOf(k).peer, k[2], prev[k].path>>

RECURSIVE PrevSteps(_, _)
\* The number of facts visited by following prev from k, counted up to
\* fuel + 1.
PrevSteps(k, fuel) ==
    IF ~HasPrev(k) THEN 0
    ELSE IF fuel = 0 THEN 1
         ELSE 1 + PrevSteps(PrevKey(k), fuel - 1)

RECURSIVE PrevReach(_, _)
\* The facts visited by following prev from k for at most fuel steps.
PrevReach(k, fuel) ==
    IF ~HasPrev(k) \/ fuel = 0 THEN {}
    ELSE {PrevKey(k)} \cup PrevReach(PrevKey(k), fuel - 1)

\* C27: the path of the prev of a fact is shorter by exactly one router, the
\* chain of prev ends within len(path) - 1 steps at a fact without prev,
\* and no fact is reached from itself.
C27_PrevChainEnds ==
    \A k \in DOMAIN prev :
        /\ HasPrev(k) => Len(prev[k].path) = Len(k[3]) - 1
        /\ PrevSteps(k, MaxPathLen + 1) <= Len(k[3]) - 1
        /\ k \notin PrevReach(k, MaxPathLen + 1)

\* The last loop completed and a fact with a path of three routers has a
\* chain of two steps: its prev has a prev, which has none.
C27_Witness ==
    /\ pc = "chained"
    /\ \E k \in DOMAIN prev :
          /\ Len(k[3]) = 3
          /\ PrevSteps(k, MaxPathLen + 1) = 2
          /\ HasPrev(PrevKey(k))
          /\ ~HasPrev(PrevKey(PrevKey(k)))

\* The router-level graph of a prefix as it was handed to expand_ebgp_graph.
BeforeExpand(net) == ClearOrder(PropagationGraph(prop_out[net].ibgp))

\* The origins of line 225 for an AS under a prefix: the last routers of
\* the requirement paths of the prefix whose AS path begins with that AS.
ReqOrigins(net, a) ==
    {Last(r.path) : r \in {q \in Range(NetReqs(net)) :
                              /\ q.type = PathReq
                              /\ get_bgp_path(q.path).ret # << >>
                              /\ get_bgp_path(q.path).ret[1] = a}}

RECURSIVE SessionWalks(_, _)
\* The walks of at most n routers that start at a router of O and follow
\* BGP sessions.
SessionWalks(O, n) ==
    IF n <= 1 THEN {<<o>> : o \in O}
    ELSE SessionWalks(O, n - 1)
         \cup UNION {{Append(w, m) : m \in nbrs[Last(w)]} :
                        w \in SessionWalks(O, n - 1)}

RECURSIVE Follows(_, _, _, _)
\* Router path q, which has reached position i of the AS sequence S with
\* its router j, goes on through the rest of S: each further AS is entered
\* over a session to a router of another AS that is not yet on the path
\* and lies in the zone of that AS, after which the path may take one
\* session to a router of the same AS; q ends with the last AS of S.
Follows(q, j, S, i) ==
    IF i >= Len(S) THEN j = Len(q)
    ELSE /\ j < Len(q)
         /\ q[j + 1] \in nbrs[q[j]]
         /\ asnum[q[j + 1]] # asnum[q[j]]
         /\ q[j + 1] \notin {q[k] : k \in 1..j}
         /\ q[j + 1] \in zones[S[i + 1]].nodes
         /\ \/ Follows(q, j + 1, S, i + 1)
            \/ /\ j + 1 < Len(q)
               /\ q[j + 2] \in nbrs[q[j + 1]]
               /\ asnum[q[j + 2]] = asnum[q[j + 1]]
               /\ Follows(q, j + 2, S, i + 1)

\* The router paths that AS path S expands to under a prefix.
ExpansionsOf(net, S) ==
    {q \in SessionWalks(ReqOrigins(net, S[1]), 2 * Len(S)) :
        Follows(q, 1, S, 1)}

\* The AS paths selected or blocked in the AS-level graph of a prefix.
AsPathsOf(net) ==
    UNION {ebgp_graphs[net].attr[a].paths \cup ebgp_graphs[net].attr[a].block :
              a \in ebgp_graphs[net].nodes}

\* C28: the router-level graph stored for a prefix has the paths and order
\* of every node as they were before expand_ebgp_graph and a block set that
\* lost nothing; every router path that an AS path of the AS-level graph
\* expands to from the origins of the prefix's requirements is in paths or
\* block of its last router, and a path new in block is not in that
\* router's paths.
C28_ExpandOnlyAddsBlock ==
    \A net \in DOMAIN ibgp_graphs :
        /\ ibgp_graphs[net].nodes = BeforeExpand(net).nodes
        /\ \A n \in ibgp_graphs[net].nodes :
              /\ ibgp_graphs[net].attr[n].paths = BeforeExpand(net).attr[n].paths
              /\ ibgp_graphs[net].attr[n].order = BeforeExpand(net).attr[n].order
              /\ BeforeExpand(net).attr[n].block \subseteq ibgp_graphs[net].attr[n].block
              /\ (ibgp_graphs[net].attr[n].block \ BeforeExpand(net).attr[n].block)
                    \cap ibgp_graphs[net].attr[n].paths = {}
        /\ \A S \in AsPathsOf(net) :
              \A q \in ExpansionsOf(net, S) :
                  /\ Last(q) \in ibgp_graphs[net].nodes
                  /\ q \in ibgp_graphs[net].attr[Last(q)].paths
                            \cup ibgp_graphs[net].attr[Last(q)].block

\* A prefix was processed: one expansion was added to the block
\* set of its last router, another was left alone because its last router
\* selects it.
C28_Witness ==
    \E net \in DOMAIN ibgp_graphs :
        \E S \in AsPathsOf(net) :
            /\ \E q \in ExpansionsOf(net, S) :
                  /\ q \in ibgp_graphs[net].attr[Last(q)].block
                  /\ q \notin BeforeExpand(net).attr[Last(q)].block
            /\ \E q \in ExpansionsOf(net, S) :
                  /\ q \in ibgp_graphs[net].attr[Last(q)].paths
                  /\ q \notin ibgp_graphs[net].attr[Last(q)].block

RECURSIVE InBlocks(_, _, _, _)
\* The routers of path p from position j on are, for every AS of the
\* sequence S from position i on, one router of that AS or two consecutive
\* routers of that AS, and nothing else.
InBlocks(p, j, S, i) ==
    IF i > Len(S) THEN j > Len(p)
    ELSE /\ j <= Len(p)
         /\ get_bgp_asnum(p[j]).ret = S[i]
         /\ \/ InBlocks(p, j + 1, S, i + 1)
            \/ /\ j + 1 <= Len(p)
               /\ get_bgp_asnum(p[j + 1]).ret = S[i]
               /\ InBlocks(p, j + 2, S, i + 1)

\* C29 as claimed: a path returned by expand_as_path begins with exactly
\* one router of the first AS of the sequence, an origin; after it comes,
\* for every later AS of the sequence in turn (an AS number that recurs in
\* the sequence is taken position by position), one router of that AS or
\* two consecutive ones; and every router of the path is a BGP neighbor of
\* the router before it.
C29_ExpandedPathShape ==
    pc = "expand_done" =>
        \A p \in exp_result :
            /\ p[1] \in exp_origins
            /\ get_bgp_asnum(p[1]).ret = exp_path[1]
            /\ InBlocks(p, 2, exp_path, 2)
            /\ \A i \in 1..(Len(p) - 1) : p[i + 1] \in get_bgp_neighbors(p[i]).ret

\* C30: compute_dags on an empty requirement list returns nothing: the
\* loop over the prefixes runs for no prefix, so unmatching_order is never
\* assigned; the merged graphs, the facts and the enumeration are empty,
\* and the only way the call ends is the error of the return statement.
C30_EmptyReqsRaise ==
    (reqs = << >> /\ pc # "constructed" /\ err.where # "add_path_req") =>
        /\ pc # "done"
        /\ ~returned.bound
        /\ ~unmatching_order.bound
        /\ net_done = << >>
        /\ pc \in {"merged", "facts", "chained", "enum", "error"} =>
              /\ ibgp_propagation.nodes = {} /\ ebgp_propagation.nodes = {}
              /\ cache = << >> /\ aspath_enum = {}
        /\ pc = "error" =>
              /\ err.kind = "UnboundLocalError"
              /\ err.where = "compute_dags"

\* The call on an empty requirement list ended at its return statement.
C30_Witness ==
    /\ reqs = << >>
    /\ pc = "error"
    /\ err.kind = "UnboundLocalError"
    /\ ibgp_propagation.nodes = {}

=============================================================================
